---------------------------- MODULE Spec2Model ----------------------------
(***************************************************************************)
(* Incremental build cache and invalidation logic of the knowledge-base    *)
(* site generator (web/scripts/build.py and the per-kind modules).         *)
(*                                                                         *)
(* The vault, the templates, the static items and the output tree are the  *)
(* state.  One build invocation (build.py main) is one atomic step: the    *)
(* program is single-threaded and runs to completion.  Between two         *)
(* invocations the user edits sources or removes outputs.                  *)
(***************************************************************************)
EXTENDS Integers, Sequences, FiniteSets, TLC

(***************************************************************************)
(* Bounds of the model.                                                    *)
(***************************************************************************)
\* modification times range over 1..MaxTime; 0 stands for "file absent"
MaxTime == 2
\* number of edits (of sources, or removals of pages) explored in one history
MaxEdits == 1
\* the number of lines of a recipe body built from StepLines
MaxLines == 3
\* the number of components of an ingredient name that is split at "/"
MaxComponents == 3
\* the number of characters of a quantity string
MaxChars == 4
\* the number of characters of a frontmatter value
MaxFieldChars == 3
\* the number of words, blanks and punctuation marks of a book status
MaxStatusWords == 3
\* the number of lines of a daily file
MaxHabitLines == 3
\* the number of habits of a day
MaxTotal == 8
\* the last day a date range may hold
MaxDay == 15
\* the number of atoms of a text with frontmatter
MaxTextAtoms == 6
\* the number of build subprocesses the dev server starts
MaxBuilds == 3

(***************************************************************************)
(* The modelled vault: note "a" lives in vault/d/a.md, note "b" in         *)
(* vault/b.md; vault/d/img.png is the one asset a note may link to.        *)
(***************************************************************************)
Notes == {"a", "b"}
\* the order in which NOTES_DIR.rglob("*.md") yields the files
Traversal == <<"a", "b">>
Titles == {"", "b"}
Dates == {"", "d1"}
Times == 1..MaxTime

Rel(n) == IF n = "a" THEN "d/a.md" ELSE "b.md"
Stem(n) == n
\* rel.with_suffix("")
NoExt(n) == IF n = "a" THEN "d/a" ELSE "b"
\* rel.parent.as_posix()
RelParent(n) == IF n = "a" THEN "d" ELSE "."
Url(n) == IF n = "a" THEN "/d/a" ELSE "/b"
\* BUILD_DIR / rel.with_suffix("") / "index.html", relative to BUILD_DIR
OutPath(n) == IF n = "a" THEN "d/a/index.html" ELSE "b/index.html"
OutDir(n) == NoExt(n)
IndexPath == "index.html"
AssetRel == "d/img.png"
\* directories of the output tree below BUILD_DIR that hold notes or assets
BuildRoot == "."
Dirs == {"d", "d/a", "b"}
DirParent(p) == IF p = "d/a" THEN "d" ELSE BuildRoot
\* the cached "output" strings a cache entry can hold
KeyOfOutput(o) == IF o = "d/a/index.html" THEN "a" ELSE "b"

\* STATIC_ITEMS: the static directory (one file in it) and the _redirects file
StaticDirFile == "static/style.css"
StaticFile == "_redirects"
StaticPaths == {StaticDirFile, StaticFile}
\* the static directory itself
StaticDir == "static"
StaticSources == StaticPaths \cup {StaticDir}

\* hashlib.md5(x).hexdigest(): a digest is never the empty string and two
\* different inputs give two different digests (collisions are not modelled)
EmptyStr == <<>>
MD5(x) == <<x>>

\* a note that is not public is never read beyond its "public" field: its other
\* fields are kept at fixed values.  A deleted note is out of the public index
\* like a private one; naming a deleted note with --note is the MissingTarget
\* case below
PrivateNote == [status |-> "private", mtime |-> 1, title |-> "", date |-> ""]
PublicNoteStates ==
    [status : {"public"}, mtime : Times, title : Titles, date : Dates]
NoteStates == PublicNoteStates \cup {PrivateNote}

VARIABLES
    notes,      \* the vault: per note its visibility, mtime, title, date
    links,      \* the notes whose text links to the asset
    tmpl,       \* mtimes of header.html and footer.html
    about,      \* mtime of vault/about.md, 0 when absent
    assetSrc,   \* mtime of vault/d/img.png, 0 when absent
    staticSrc,  \* mtimes of the static sources, 0 when absent; for the static
                \* directory 1 when it exists and 0 when it does not
    outNotes,   \* notes whose output file exists in the output tree
    outIndex,   \* build/index.html exists
    includes,   \* build/_includes/header.html and wikilinks.json exist
    dirs,       \* directories that exist below build/
    staticDst,  \* mtimes of the synced static files, 0 when absent
    assetDst,   \* mtime of build/d/img.png, 0 when absent
    cacheFile,  \* <<>> when build/.build_cache.json is absent, else <<its text>>
    written,    \* what the note pages and the include files were written from,
                \* and whether an invocation was interrupted since the last
                \* one that ran to its end
    intact,     \* no page was removed by hand, no invocation failed after pruning
    edits,      \* number of edits made so far
    last,       \* what the last invocation did; NoRun after an edit
    kind,       \* which pipeline this history explores: "notes" or "recipes"
    recipes,    \* the recipes root: per recipe its presence, title, mtime, references
    rcache,     \* cache["recipes"]
    routs,      \* recipes whose page exists in the output tree
    rbuilt,     \* recipes built since the last edit
    body,       \* the body of a recipe file, as a sequence of atoms; in CallSpec
                \* the call of a function: its name and its arguments
    parsed,     \* <<>> before the body is parsed, else <<what parse_cooklang
                \* returns>>; in CallSpec <<>>, then <<what the call gives>>
    dev         \* the dev server: where its thread stands, the watches with a
                \* change not yet handled, the build subprocesses it started

vars == <<notes, links, tmpl, about, assetSrc, staticSrc, outNotes, outIndex, includes,
          dirs, staticDst, assetDst, cacheFile, written, intact, edits, last,
          kind, recipes, rcache, routs, rbuilt, body, parsed, dev>>

srcVars == <<notes, links, tmpl, about, assetSrc, staticSrc>>
outVars == <<outNotes, outIndex, includes, dirs, staticDst, assetDst, cacheFile, written>>
recipeVars == <<recipes, rcache, routs, rbuilt>>
parseVars == <<body, parsed, dev>>

(***************************************************************************)
(* The build cache (build.py).                                             *)
(***************************************************************************)
EmptyMap == [k \in {} |-> 0]
Put(m, k, v) == [x \in DOMAIN m \cup {k} |-> IF x = k THEN v ELSE m[x]]
Without(m, k) == [x \in DOMAIN m \ {k} |-> m[x]]

\* DEFAULT_CACHE with fresh "notes" and "assets"
new_cache ==
    [header_mtime |-> 0, footer_mtime |-> 0, nav_hash |-> EmptyStr,
     wikilinks_hash |-> EmptyStr, notes |-> EmptyMap, static_mtime |-> 0,
     about_md_mtime |-> 0, assets |-> {}]

\* The text of the cache file: its form ("object" for a JSON object, "invalid"
\* for text that is no JSON, "array" for another JSON value) and, for an
\* object, its members.  A "notes" member that is no JSON object is NotADict
NotADict == [not_a_dict |-> TRUE]
IsDict(v) == "not_a_dict" \notin DOMAIN v

\* json.loads fails or gives no dict: the defaults stay.  Otherwise only the
\* keys of DEFAULT_CACHE are taken from the file
load_cache(cf) ==
    IF cf = <<>> THEN new_cache
    ELSE IF cf[1].form # "object" THEN new_cache
    ELSE LET loaded == cf[1].members
             get(key) == IF key \in DOMAIN loaded THEN loaded[key] ELSE new_cache[key]
         IN  [header_mtime |-> get("header_mtime"),
              footer_mtime |-> get("footer_mtime"),
              nav_hash |-> get("nav_hash"),
              wikilinks_hash |-> get("wikilinks_hash"),
              notes |-> IF IsDict(get("notes")) THEN get("notes") ELSE EmptyMap,
              static_mtime |-> get("static_mtime"),
              about_md_mtime |-> get("about_md_mtime"),
              assets |-> get("assets")]

\* json.dumps of the whole dict, whatever its keys
save_cache(cache) == <<[form |-> "object", members |-> cache]>>

\* a modelled title or date is the empty string or one token without '|'
Chars(str) == IF str = "" THEN <<>> ELSE <<str>>

\* md5 of f"{title}|{date}"
make_metadata_hash(title, date) == MD5(Chars(title) \o <<"|">> \o Chars(date))

NoteHash(ns, n) == make_metadata_hash(ns[n].title, ns[n].date)

\* get_public_notes that takes every note that is there, public or not
get_notes_unfiltered(ns) == SelectSeq(Traversal, LAMBDA n : ns[n].status # "absent")

\* the list of public notes, in traversal order
get_public_notes(ns) == SelectSeq(Traversal, LAMBDA n : ns[n].status = "public")

Range(seq) == {seq[i] : i \in 1..Len(seq)}

\* nav_html is the list of entries sorted by (title.lower(), url); the entries
\* of two notes differ in their url, so the sorted list is given by its set
build_nav(pub, ns) ==
    LET title(n) == IF ns[n].title # "" THEN ns[n].title ELSE Stem(n)
        nav_html == {<<title(n), Url(n), RelParent(n)>> : n \in Range(pub)}
    IN  MD5(nav_html)

\* every modelled stem, path and title is lower case, without '|', '#', '.md'
\* or inner whitespace: normalisation leaves it as it is
normalize_wikilink_key(value) == value

RECURSIVE WikiAssign(_, _, _, _)
WikiAssign(pub, ns, i, link_map) ==
    IF i > Len(pub) THEN link_map
    ELSE LET n == pub[i]
             stem_key == normalize_wikilink_key(Stem(n))
             stem_count == Cardinality({j \in 1..Len(pub) :
                              normalize_wikilink_key(Stem(pub[j])) = stem_key})
             title == ns[n].title
             title_key == normalize_wikilink_key(title)
             title_count == Cardinality({j \in 1..Len(pub) :
                              /\ ns[pub[j]].title # ""
                              /\ normalize_wikilink_key(ns[pub[j]].title) = title_key})
             m1 == Put(link_map, normalize_wikilink_key(NoExt(n)), Url(n))
             m2 == IF stem_count = 1 THEN Put(m1, stem_key, Url(n)) ELSE m1
             m3 == IF title # "" /\ title_count = 1
                   THEN Put(m2, title_key, Url(n)) ELSE m2
         IN  WikiAssign(pub, ns, i + 1, m3)

build_wikilink_map(pub, ns) == WikiAssign(pub, ns, 1, EmptyMap)

\* json.dumps(..., sort_keys=True) of the map, then md5
WikilinksHash(pub, ns) == MD5(build_wikilink_map(pub, ns))

\* includes_changed without the two template mtime comparisons
includes_changed_no_mtime(cache, header_mtime, footer_mtime, nav_hash, wikilinks_hash, inc) ==
    \/ nav_hash # cache.nav_hash
    \/ wikilinks_hash # cache.wikilinks_hash
    \/ ~inc

includes_changed(cache, header_mtime, footer_mtime, nav_hash, wikilinks_hash, inc) ==
    \/ header_mtime > cache.header_mtime
    \/ footer_mtime > cache.footer_mtime
    \/ nav_hash # cache.nav_hash
    \/ wikilinks_hash # cache.wikilinks_hash
    \/ ~inc

update_includes_cache(cache, header_mtime, footer_mtime, nav_hash, wikilinks_hash) ==
    [cache EXCEPT !.header_mtime = header_mtime, !.footer_mtime = footer_mtime,
                  !.nav_hash = nav_hash, !.wikilinks_hash = wikilinks_hash]

(***************************************************************************)
(* One invocation works on a record r: the in-memory cache, the output     *)
(* tree, and what main collects (changed_files, and which pages it built). *)
(***************************************************************************)
OutputExists(r, output) == \E n \in r.outNotes : OutPath(n) = output

\* needs_rebuild without the mtime comparison
needs_rebuild_no_mtime(r, ns, n, header_changed) ==
    IF n \notin DOMAIN r.cache.notes THEN TRUE
    ELSE IF ~OutputExists(r, r.cache.notes[n].output) THEN TRUE
    ELSE header_changed

\* needs_rebuild that calls every note stale
needs_rebuild_always(r, ns, n, header_changed) == TRUE

\* "if not cached": no entry, or an entry that is an empty dict
NoEntry(r, n) == n \notin DOMAIN r.cache.notes \/ DOMAIN r.cache.notes[n] = {}

\* needs_rebuild raises KeyError at cached["output"] or cached["mtime"]
needs_rebuild_raises(r, ns, n, header_changed) ==
    /\ ~NoEntry(r, n)
    /\ \/ "output" \notin DOMAIN r.cache.notes[n]
       \/ /\ OutputExists(r, r.cache.notes[n].output)
          /\ ~header_changed
          /\ "mtime" \notin DOMAIN r.cache.notes[n]

needs_rebuild(r, ns, n, header_changed) ==
    IF NoEntry(r, n) THEN TRUE
    ELSE IF ~OutputExists(r, r.cache.notes[n].output) THEN TRUE
    ELSE IF header_changed THEN TRUE
    ELSE ns[n].mtime > r.cache.notes[n].mtime

\* a directory holds something: a sub-directory, a note page or the asset
DirNonEmpty(r, p) ==
    \/ \E q \in r.dirs : DirParent(q) = p /\ q # p
    \/ \E n \in r.outNotes : OutDir(n) = p
    \/ p = "d" /\ r.assetDst > 0

\* cleanup_empty_dirs that removes nothing
cleanup_no_dirs(r, current) == r

RECURSIVE cleanup_empty_dirs(_, _)
cleanup_empty_dirs(r, current) ==
    IF current = BuildRoot \/ current \notin r.dirs THEN r
    ELSE IF DirNonEmpty(r, current) THEN r
    ELSE cleanup_empty_dirs([r EXCEPT !.dirs = @ \ {current}], DirParent(current))

\* output.parent.mkdir(parents=True, exist_ok=True)
RECURSIVE Ancestors(_)
Ancestors(p) == IF p = BuildRoot THEN {} ELSE {p} \cup Ancestors(DirParent(p))

\* build_note that records the cache entry and writes no page
build_note_cache_only(r, ns, n) ==
    [r EXCEPT !.cache.notes = Put(@, n, [mtime |-> ns[n].mtime,
                                         metadata_hash |-> NoteHash(ns, n),
                                         output |-> OutPath(n)])]

build_note(r, ns, n) ==
    [r EXCEPT !.outNotes = @ \cup {n},
              !.dirs = @ \cup Ancestors(OutDir(n)),
              !.cache.notes = Put(@, n, [mtime |-> ns[n].mtime,
                                         metadata_hash |-> NoteHash(ns, n),
                                         output |-> OutPath(n)])]

\* main: output = build_note(...); changed_files.append(output)
BuildNoteStep(r, ns, n) ==
    LET r1 == build_note(r, ns, n)
    IN  [r1 EXCEPT !.built = @ \cup {n}, !.changed = @ \cup {OutPath(n)}]

index_needs_rebuild(r, ns, pub, about_mtime) ==
    \* cache.get("notes", {}).get(key, {}).get("metadata_hash")
    \/ \E n \in Range(pub) :
          \/ n \notin DOMAIN r.cache.notes
          \/ "metadata_hash" \notin DOMAIN r.cache.notes[n]
          \/ r.cache.notes[n].metadata_hash # NoteHash(ns, n)
    \/ ~r.outIndex
    \/ about_mtime # r.cache.about_md_mtime

build_index(r, about_mtime) ==
    [r EXCEPT !.outIndex = TRUE, !.cache.about_md_mtime = about_mtime]

BuildIndexStep(r, about_mtime) ==
    LET r1 == build_index(r, about_mtime)
    IN  [r1 EXCEPT !.indexBuilt = TRUE, !.changed = @ \cup {IndexPath}]

\* a copy that never skips
copy_always(src, dst) == TRUE

\* a copy that also replaces a destination of the same age
copy_if_not_older(src, dst) == ~(dst > 0 /\ dst > src)

\* copy_if_newer returns False when dst exists and is at least as new as src
copy_if_newer(src, dst) == ~(dst > 0 /\ dst >= src)

sync_static_dir(r, ss) ==
    IF ss[StaticDirFile] > 0 /\ copy_if_newer(ss[StaticDirFile], r.staticDst[StaticDirFile])
    THEN [r EXCEPT !.staticDst[StaticDirFile] = ss[StaticDirFile],
                   !.changed = @ \cup {StaticDirFile}]
    ELSE r

sync_static_file(r, ss) ==
    IF ss[StaticFile] > 0
    THEN IF copy_if_newer(ss[StaticFile], r.staticDst[StaticFile])
         THEN [r EXCEPT !.staticDst[StaticFile] = ss[StaticFile],
                        !.changed = @ \cup {StaticFile}]
         ELSE r
    ELSE IF r.staticDst[StaticFile] > 0
         THEN [r EXCEPT !.staticDst[StaticFile] = 0, !.changed = @ \cup {StaticFile}]
         ELSE r

\* sync_static_file(STATIC_DIR, BUILD_DIR / "static") when STATIC_DIR is no
\* directory: dest.unlink() on the directory of an earlier sync raises
sync_static_file_on_dir(r, ss) ==
    IF r.staticDst[StaticDirFile] > 0 THEN [r EXCEPT !.exit = "crash"] ELSE r

sync_static_items(r, ss) ==
    LET r1 == IF ss[StaticDir] > 0 THEN sync_static_dir(r, ss)
              ELSE sync_static_file_on_dir(r, ss)
    IN  IF r1.exit # "ok" THEN r1 ELSE sync_static_file(r1, ss)

\* the asset is wanted when a public note links to it and it is a file
extract_asset_paths(lk, n, asrc) == IF n \in lk /\ asrc > 0 THEN {AssetRel} ELSE {}

sync_note_assets(r, lk, pub, asrc) ==
    LET desired == UNION {extract_asset_paths(lk, n, asrc) : n \in Range(pub)}
        r1 == IF AssetRel \in desired /\ copy_if_newer(asrc, r.assetDst)
              THEN [r EXCEPT !.assetDst = asrc, !.dirs = @ \cup {"d"},
                             !.changed = @ \cup {AssetRel}]
              ELSE r
        r2 == IF AssetRel \in (r1.cache.assets \ desired) /\ r1.assetDst > 0
              THEN LET u == [r1 EXCEPT !.assetDst = 0]
                   IN  [cleanup_empty_dirs(u, "d") EXCEPT !.changed = @ \cup {AssetRel}]
              ELSE r1
    IN  [r2 EXCEPT !.cache.assets = desired]

\* cached.get("output", "") of an entry without "output" names BUILD_DIR
\* itself, which exists: unlink raises
PruneOne(r, key) ==
    IF "output" \notin DOMAIN r.cache.notes[key] THEN [r EXCEPT !.exit = "crash"]
    ELSE
    LET output == r.cache.notes[key].output
        r1 == IF OutputExists(r, output)
              THEN LET u == [r EXCEPT !.outNotes = @ \ {KeyOfOutput(output)}]
                   IN  cleanup_empty_dirs(u, OutDir(KeyOfOutput(output)))
              ELSE r
    IN  [r1 EXCEPT !.cache.notes = Without(@, key), !.pruned = @ \cup {key}]

\* the keys are visited in the cache's own order; two prunes touch different
\* outputs, and the directories left are the same in either order
RECURSIVE PruneFrom(_, _, _)
PruneFrom(r, public_keys, i) ==
    IF i > Len(Traversal) \/ r.exit # "ok" THEN r
    ELSE LET key == Traversal[i]
         IN  IF key \in DOMAIN r.cache.notes /\ key \notin public_keys
             THEN PruneFrom(PruneOne(r, key), public_keys, i + 1)
             ELSE PruneFrom(r, public_keys, i + 1)

prune_private_notes(r, pub) == PruneFrom(r, Range(pub), 1)

\* cleanup_build_artifacts that leaves the cache file
cleanup_includes_only(r) == [r EXCEPT !.includes = FALSE]

cleanup_build_artifacts(r) == [r EXCEPT !.includes = FALSE, !.cacheFile = <<>>]

(***************************************************************************)
(* main (build.py).  The flags are resolved in main's own order: --clean,  *)
(* then --all (or changed includes), --note, --index, --static, and the    *)
(* incremental default.                                                    *)
(***************************************************************************)
Modes == {"all", "note", "index", "static", "clean", "default"}
NoTarget == "-"
\* a --note path that names no file
MissingTarget == "missing"
Targets == Notes \cup {MissingTarget}

RECURSIVE BuildAll(_, _, _, _)
BuildAll(r, ns, pub, i) ==
    IF i > Len(pub) THEN r
    ELSE BuildAll(BuildNoteStep(r, ns, pub[i]), ns, pub, i + 1)

RECURSIVE BuildStale(_, _, _, _, _)
BuildStale(r, ns, pub, header_changed, i) ==
    IF i > Len(pub) THEN r
    ELSE IF needs_rebuild_raises(r, ns, pub[i], header_changed)
         THEN [r EXCEPT !.exit = "crash"]
    ELSE IF needs_rebuild(r, ns, pub[i], header_changed)
         THEN BuildStale(BuildNoteStep(r, ns, pub[i]), ns, pub, header_changed, i + 1)
         ELSE BuildStale(r, ns, pub, header_changed, i + 1)

\* a run that never rebuilds the index on its own
IndexIfStale_never(r, ns, pub, about_mtime) == r

IndexIfStale(r, ns, pub, about_mtime) ==
    IF r.pruned # {} \/ index_needs_rebuild(r, ns, pub, about_mtime)
    THEN BuildIndexStep(r, about_mtime)
    ELSE r

\* update_includes_cache, then save_cache or cleanup_build_artifacts
Finish(r, keep, header_mtime, footer_mtime, nav_hash, wikilinks_hash) ==
    LET c == update_includes_cache(r.cache, header_mtime, footer_mtime,
                                   nav_hash, wikilinks_hash)
        r1 == [r EXCEPT !.cache = c]
    IN  IF keep THEN [r1 EXCEPT !.cacheFile = save_cache(c)]
        ELSE cleanup_build_artifacts(r1)

\* shutil.rmtree(BUILD_DIR)
CleanRun ==
    [cache |-> new_cache, outNotes |-> {}, outIndex |-> FALSE, includes |-> FALSE,
     dirs |-> {}, staticDst |-> [f \in StaticPaths |-> 0], assetDst |-> 0,
     cacheFile |-> <<>>, changed |-> {}, built |-> {}, indexBuilt |-> FALSE,
     pruned |-> {}, exit |-> "ok", header_changed |-> FALSE]

TargetExists(ns, target) == target \in Notes

Disk ==
    [cacheFile |-> cacheFile, outNotes |-> outNotes, outIndex |-> outIndex,
     includes |-> includes, dirs |-> dirs, staticDst |-> staticDst,
     assetDst |-> assetDst]

\* the state main starts from: the loaded cache and the output tree as it is
StartRun(disk) ==
    [cache |-> load_cache(disk.cacheFile), outNotes |-> disk.outNotes,
     outIndex |-> disk.outIndex, includes |-> disk.includes,
     dirs |-> disk.dirs, staticDst |-> disk.staticDst,
     assetDst |-> disk.assetDst, cacheFile |-> disk.cacheFile,
     changed |-> {}, built |-> {}, indexBuilt |-> FALSE, pruned |-> {},
     exit |-> "ok", header_changed |-> FALSE]

(***************************************************************************)
(* Recipes (recipes.py).  The recipes root holds r1.cook and r2.cook; an   *)
(* ingredient named ./r2 in r1.cook is a reference of r1 to r2.            *)
(***************************************************************************)
Recipes == {"r1", "r2"}
RecipeTitles == {"t1", "t2"}
\* BUILD_DIR / "recipes" / slug / "index.html", relative to BUILD_DIR
RecipeOutPath(x) == IF x = "r1" THEN "recipes/r1/index.html" ELSE "recipes/r2/index.html"
NoRecipe == [present |-> FALSE, mtime |-> 1, title |-> "t1", refs |-> {}]
RecipeStates ==
    [present : {TRUE}, mtime : Times, title : RecipeTitles, refs : SUBSET Recipes]
        \cup {NoRecipe}

\* recipes.make_metadata_hash(title)
recipe_metadata_hash(title) == MD5(title)

\* the list of {path, metadata_hash} sorted by path, one entry per referenced
\* path, is given by the map from path to hash
build_reference_cache(rs, x) ==
    [b \in rs[x].refs |->
        IF rs[b].present THEN recipe_metadata_hash(rs[b].title) ELSE EmptyStr]

\* recipe_needs_rebuild without the comparison of the reference hashes
recipe_needs_rebuild_no_refs(rs, rc, ro, x, templates_changed) ==
    IF x \notin DOMAIN rc THEN TRUE
    ELSE IF ~(\E y \in ro : RecipeOutPath(y) = rc[x].output) THEN TRUE
    ELSE IF templates_changed THEN TRUE
    ELSE rs[x].mtime > rc[x].mtime

recipe_needs_rebuild(rs, rc, ro, x, templates_changed) ==
    IF x \notin DOMAIN rc THEN TRUE
    ELSE IF ~(\E y \in ro : RecipeOutPath(y) = rc[x].output) THEN TRUE
    ELSE IF templates_changed THEN TRUE
    ELSE IF rs[x].mtime > rc[x].mtime THEN TRUE
    ELSE rc[x].ref_hashes # build_reference_cache(rs, x)

\* a cache entry that records no reference hashes
build_recipe_entry_no_refs(rs, x) ==
    [mtime |-> rs[x].mtime,
     metadata_hash |-> recipe_metadata_hash(rs[x].title),
     output |-> RecipeOutPath(x),
     ref_hashes |-> EmptyMap]

build_recipe_entry(rs, x) ==
    [mtime |-> rs[x].mtime,
     metadata_hash |-> recipe_metadata_hash(rs[x].title),
     output |-> RecipeOutPath(x),
     ref_hashes |-> build_reference_cache(rs, x)]

\* build_recipe: write the page, record the cache entry
BuildRecipe ==
    /\ kind = "recipes"
    /\ \E x \in Recipes :
        /\ recipes[x].present
        /\ routs' = routs \cup {x}
        /\ rcache' = Put(rcache, x, build_recipe_entry(recipes, x))
        /\ rbuilt' = rbuilt \cup {x}
    /\ UNCHANGED <<srcVars, outVars, intact, edits, last, kind, recipes, parseVars>>

\* prune_removed_recipes
PruneRecipes ==
    /\ kind = "recipes"
    /\ \E gone \in {{x \in DOMAIN rcache : ~recipes[x].present}} :
        /\ gone # {}
        /\ routs' = routs \ gone
        /\ rcache' = [x \in DOMAIN rcache \ gone |-> rcache[x]]
    /\ UNCHANGED <<srcVars, outVars, intact, edits, last, kind, recipes, rbuilt, parseVars>>

\* the cache dict after build_recipe did cache.setdefault("recipes", {})
WithRecipes(cache, rc) ==
    [header_mtime |-> cache.header_mtime, footer_mtime |-> cache.footer_mtime,
     nav_hash |-> cache.nav_hash, wikilinks_hash |-> cache.wikilinks_hash,
     notes |-> cache.notes, static_mtime |-> cache.static_mtime,
     about_md_mtime |-> cache.about_md_mtime, assets |-> cache.assets,
     recipes |-> rc]

\* cache.get("recipes", {})
RecipesOf(cache) == IF "recipes" \in DOMAIN cache THEN cache.recipes ELSE EmptyMap

\* an invocation ends with save_cache, the next one starts with load_cache
ReloadCache ==
    /\ kind = "recipes"
    /\ rcache' = RecipesOf(load_cache(save_cache(WithRecipes(new_cache, rcache))))
    /\ rbuilt' = {}
    /\ UNCHANGED <<srcVars, outVars, intact, edits, last, kind, recipes, routs, parseVars>>

EditRecipe ==
    /\ kind = "recipes"
    /\ edits < MaxEdits
    /\ \E x \in Recipes, st \in RecipeStates :
        /\ st # recipes[x]
        /\ recipes' = [recipes EXCEPT ![x] = st]
    /\ edits' = edits + 1
    /\ rbuilt' = {}
    /\ UNCHANGED <<srcVars, outVars, intact, last, kind, rcache, routs, parseVars>>

(***************************************************************************)
(* The recipe parser (recipes.py parse_cooklang).  A text is a sequence of *)
(* atoms: a special character, a blank, a newline, a punctuation mark, or  *)
(* a word: a run of letters and digits, which no regular expression and no *)
(* strip of the parser ever splits.                                        *)
(***************************************************************************)
Blank == " "
Newline == "\n"
\* the complement of the name class [^@#~{\n]
NameStop == {"@", "#", "~", "{", Newline}

\* str.lower(), on the words the recipes and the books use
LowerAtom(c) ==
    CASE c = "Flour" -> "flour" [] c = "Pot" -> "pot"
      [] c = "Reading" -> "reading" [] c = "In" -> "in"
      [] OTHER -> c
Lower(s) == [k \in 1..Len(s) |-> LowerAtom(s[k])]

\* str.lstrip(chars), str.rstrip(chars), str.strip()
LStrip(s, cs) ==
    LET ks == {k \in 1..Len(s) : s[k] \notin cs}
    IN  IF ks = {} THEN <<>>
        ELSE SubSeq(s, CHOOSE k \in ks : \A j \in ks : k <= j, Len(s))
RStrip(s, cs) ==
    LET ks == {k \in 1..Len(s) : s[k] \notin cs}
    IN  IF ks = {} THEN <<>>
        ELSE SubSeq(s, 1, CHOOSE k \in ks : \A j \in ks : k >= j)
Strip(s) == LStrip(RStrip(s, {Blank}), {Blank})

\* a cleaning that only trims blanks
clean_token_name_trim_only(name) == Strip(name)

clean_token_name(name) ==
    LET cleaned == Strip(name)
        inner == LStrip(RStrip(cleaned, {"("}), {"("})
    IN  Strip(RStrip(inner, {",", ".", ";", ":", "!", "?", ")"}))

\* the index of the first atom of s at or after i that is in stop, Len(s) + 1
\* when there is none: where a greedy [^stop]* that starts at i ends
SpanEnd(s, i, stop) ==
    LET js == {j \in i..Len(s) : s[j] \in stop}
    IN  IF js = {} THEN Len(s) + 1 ELSE CHOOSE j \in js : \A k \in js : j <= k

NoGroup == [ok |-> FALSE, qty |-> <<>>, unit |-> <<>>, end |-> 0]

\* \{(?P<qty>[^}%]*)(?:%(?P<unit>[^}]*))?\} matched at index i
BraceGroup(s, i) ==
    IF i > Len(s) \/ s[i] # "{" THEN NoGroup
    ELSE LET q == SpanEnd(s, i + 1, {"}", "%"})
         IN  IF q > Len(s) THEN NoGroup
             ELSE IF s[q] = "}"
                  THEN [ok |-> TRUE, qty |-> SubSeq(s, i + 1, q - 1), unit |-> <<>>,
                        end |-> q + 1]
             ELSE LET u == SpanEnd(s, q + 1, {"}"})
                  IN  IF u > Len(s) THEN NoGroup
                      ELSE [ok |-> TRUE, qty |-> SubSeq(s, i + 1, q - 1),
                            unit |-> SubSeq(s, q + 1, u - 1), end |-> u + 1]

\* \{[^}]*\} matched at index i
CookwareGroup(s, i) ==
    IF i > Len(s) \/ s[i] # "{" THEN NoGroup
    ELSE LET e == SpanEnd(s, i + 1, {"}"})
         IN  IF e > Len(s) THEN NoGroup
             ELSE [ok |-> TRUE, qty |-> <<>>, unit |-> <<>>, end |-> e + 1]

\* the dataclasses; ref_path of Ingredient is left out
Ingredient(name, qty, unit) == [name |-> name, quantity |-> qty, unit |-> unit]
Cookware(name) == [name |-> name]
Timer(name, qty, unit) == [name |-> name, quantity |-> qty, unit |-> unit]
RecipeStep(k, text, ingredients) ==
    [kind |-> k, text |-> text, ingredients |-> ingredients]

\* the local state of parse_cooklang
NewParse ==
    [ingredients |-> <<>>, seen |-> {}, cookware |-> <<>>, cookware_seen |-> {},
     timers |-> <<>>, steps |-> <<>>, current_lines |-> <<>>,
     step_ingredients |-> <<>>, step_ingredients_seen |-> {}]

\* replace_ingredient that never looks at seen
replace_ingredient_no_seen(p, m) == [p |-> [p EXCEPT !.ingredients = Append(@, Ingredient(clean_token_name(m.name), Strip(m.qty), Strip(m.unit)))], text |-> clean_token_name(m.name)]

replace_ingredient(p, m) ==
    LET name == clean_token_name(m.name)
        qty == Strip(m.qty)
        unit == Strip(m.unit)
        key == <<Lower(name), qty, unit>>
        p1 == IF name # <<>> /\ key \notin p.seen
              THEN [p EXCEPT !.ingredients = Append(@, Ingredient(name, qty, unit)),
                             !.seen = @ \cup {key}]
              ELSE p
        p2 == IF name # <<>> /\ key \notin p1.step_ingredients_seen
              THEN [p1 EXCEPT !.step_ingredients =
                                  Append(@, Ingredient(name, qty, unit)),
                              !.step_ingredients_seen = @ \cup {key}]
              ELSE p1
    IN  [p |-> p2, text |-> name]

replace_cookware(p, m) ==
    LET name == clean_token_name(m.name)
        key == Lower(name)
    IN  [p |-> IF name # <<>> /\ key \notin p.cookware_seen
               THEN [p EXCEPT !.cookware = Append(@, Cookware(name)),
                              !.cookware_seen = @ \cup {key}]
               ELSE p,
         text |-> name]

\* " ".join(part for part in (qty, unit) if part)
Duration(qty, unit) ==
    IF qty # <<>> /\ unit # <<>> THEN qty \o <<Blank>> \o unit
    ELSE IF qty # <<>> THEN qty ELSE unit

\* a timer text that always has the form name (duration)
TimerText_always_formatted(name, duration) == name \o <<Blank, "(">> \o duration \o <<")">>

TimerText(name, duration) ==
    IF name # <<>> /\ duration # <<>>
    THEN name \o <<Blank, "(">> \o duration \o <<")">>
    ELSE IF name # <<>> THEN name ELSE duration

replace_timer(p, m) ==
    LET name == clean_token_name(m.name)
        qty == Strip(m.qty)
        unit == Strip(m.unit)
    IN  [p |-> IF name # <<>> \/ qty # <<>> \/ unit # <<>>
               THEN [p EXCEPT !.timers = Append(@, Timer(name, qty, unit))]
               ELSE p,
         text |-> TimerText(name, Duration(qty, unit))]

\* the one element of a singleton set; {e(x) : x \in {v}} binds x to the value v
Only(S) == CHOOSE v \in S : TRUE

\* re.sub at work on a line: the parse state, the index of the next atom to
\* look at, and the output text so far
Scan(p) == [p |-> p, i |-> 1, out |-> <<>>]

\* INGREDIENT_RE.sub(replace_ingredient, line): a match at st.i, or one atom
\* copied
IngredientStep(st, line) ==
    IF line[st.i] = "@" /\ st.i < Len(line) /\ line[st.i + 1] \notin NameStop
    THEN LET n == SpanEnd(line, st.i + 1, NameStop)
             g == BraceGroup(line, n)
             r == replace_ingredient(st.p, [name |-> SubSeq(line, st.i + 1, n - 1),
                                            qty |-> g.qty, unit |-> g.unit])
         IN  [p |-> r.p, i |-> IF g.ok THEN g.end ELSE n, out |-> st.out \o r.text]
    ELSE [st EXCEPT !.i = @ + 1, !.out = Append(@, line[st.i])]

RECURSIVE SubIngredients(_, _)
SubIngredients(st, line) ==
    IF st.i > Len(line) THEN st
    ELSE Only({SubIngredients(s2, line) : s2 \in {IngredientStep(st, line)}})

\* COOKWARE_RE.sub(replace_cookware, line)
CookwareStep(st, line) ==
    IF line[st.i] = "#" /\ st.i < Len(line) /\ line[st.i + 1] \notin NameStop
    THEN LET n == SpanEnd(line, st.i + 1, NameStop)
             g == CookwareGroup(line, n)
             r == replace_cookware(st.p, [name |-> SubSeq(line, st.i + 1, n - 1)])
         IN  [p |-> r.p, i |-> IF g.ok THEN g.end ELSE n, out |-> st.out \o r.text]
    ELSE [st EXCEPT !.i = @ + 1, !.out = Append(@, line[st.i])]

RECURSIVE SubCookware(_, _)
SubCookware(st, line) ==
    IF st.i > Len(line) THEN st
    ELSE Only({SubCookware(s2, line) : s2 \in {CookwareStep(st, line)}})

\* TIMER_RE.sub(replace_timer, line): the name is optional, the brace group
\* is not
TimerStep(st, line) ==
    LET n == SpanEnd(line, st.i + 1, NameStop)
        g == BraceGroup(line, n)
    IN  IF line[st.i] = "~" /\ g.ok
        THEN LET r == replace_timer(st.p, [name |-> SubSeq(line, st.i + 1, n - 1),
                                           qty |-> g.qty, unit |-> g.unit])
             IN  [p |-> r.p, i |-> g.end, out |-> st.out \o r.text]
        ELSE [st EXCEPT !.i = @ + 1, !.out = Append(@, line[st.i])]

RECURSIVE SubTimers(_, _)
SubTimers(st, line) ==
    IF st.i > Len(line) THEN st
    ELSE Only({SubTimers(s2, line) : s2 \in {TimerStep(st, line)}})

\* WHITESPACE_RE.sub(" ", s)
RECURSIVE Collapse(_, _)
Collapse(s, i) ==
    IF i > Len(s) THEN <<>>
    ELSE IF s[i] = Blank /\ i > 1 /\ s[i - 1] = Blank THEN Collapse(s, i + 1)
    ELSE <<s[i]>> \o Collapse(s, i + 1)

\* str.splitlines()
RECURSIVE SplitLines(_, _, _)
SplitLines(s, i, cur) ==
    IF i > Len(s)
    THEN IF cur = <<>> /\ (i = 1 \/ s[i - 1] = Newline) THEN <<>> ELSE <<cur>>
    ELSE IF s[i] = Newline THEN <<cur>> \o SplitLines(s, i + 1, <<>>)
    ELSE SplitLines(s, i + 1, Append(cur, s[i]))

\* " ".join(lines)
RECURSIVE JoinLines(_)
JoinLines(lines) ==
    IF lines = <<>> THEN <<>>
    ELSE IF Len(lines) = 1 THEN lines[1]
    ELSE lines[1] \o <<Blank>> \o JoinLines(Tail(lines))

\* flush_step that leaves the ingredients of the step in the buffer
flush_step_keeps_buffer(p) == IF p.current_lines # <<>> THEN [p EXCEPT !.steps = Append(@, RecipeStep("step", Strip(Collapse(JoinLines(p.current_lines), 1)), p.step_ingredients)), !.current_lines = <<>>] ELSE p

flush_step(p) ==
    LET combined == Strip(Collapse(JoinLines(p.current_lines), 1))
        p1 == IF p.current_lines # <<>> /\ combined # <<>>
              THEN [p EXCEPT !.steps =
                                Append(@, RecipeStep("step", combined,
                                                     p.step_ingredients))]
              ELSE p
    IN  [p1 EXCEPT !.current_lines = <<>>, !.step_ingredients = <<>>,
                   !.step_ingredients_seen = {}]

\* line = WHITESPACE_RE.sub(" ", line).strip(); if line: current_lines.append(line)
AddLine(p, text) ==
    LET line == Strip(Collapse(text, 1))
    IN  IF line # <<>> THEN [p EXCEPT !.current_lines = Append(@, line)] ELSE p

\* a line that is neither blank nor a note: the three substitutions in turn
ParseStepLine(p, stripped_line) ==
    Only({Only({Only({AddLine(c.p, c.out) :
                        c \in {SubTimers(Scan(b.p), b.out)}}) :
                  b \in {SubCookware(Scan(a.p), a.out)}}) :
            a \in {SubIngredients(Scan(p), stripped_line)}})

\* the body of the loop over content.splitlines()
ParseLine(p, raw_line) ==
    Only({IF stripped_line = <<>> THEN flush_step(p)
          ELSE IF Head(stripped_line) = ">"
          THEN LET p1 == flush_step(p)
                   note_text == Strip(Tail(stripped_line))
               IN  IF note_text # <<>>
                   THEN [p1 EXCEPT !.steps =
                                      Append(@, RecipeStep("note", note_text, <<>>))]
                   ELSE p1
          ELSE ParseStepLine(p, stripped_line) :
            stripped_line \in {Strip(raw_line)}})

RECURSIVE ParseLines(_, _, _)
ParseLines(p, lines, i) ==
    IF i > Len(lines) THEN p
    ELSE Only({ParseLines(q, lines, i + 1) : q \in {ParseLine(p, lines[i])}})

parse_cooklang(content) ==
    Only({Only({Only({[ingredients |-> p.ingredients, cookware |-> p.cookware,
                       timers |-> p.timers, steps |-> p.steps] :
                        p \in {flush_step(q)}}) :
                  q \in {ParseLines(NewParse, lines, 1)}}) :
            lines \in {SplitLines(content, 1, <<>>)}})

(***************************************************************************)
(* The recipe bodies the parser is run on.                                 *)
(***************************************************************************)
\* one line: prefix @name{qty%unit} suffix
IngredientLine(pre, name, qty, unit, suf) ==
    pre \o <<"@">> \o name \o <<"{">> \o qty \o <<"%">> \o unit \o <<"}">> \o suf

PlainPrefixes == {<<>>, <<"Add", Blank>>}
\* a prefix that holds a token of its own
TokenPrefixes ==
    {<<"#", "bowl", Blank>>, <<"@", "flour", "{", "200", "%", "g", "}", Blank>>}
Prefixes == PlainPrefixes \cup TokenPrefixes
Suffixes == {<<>>, <<".">>, <<Blank, "now">>}
TokenNames ==
    {<<"Flour">>, <<Blank, "Flour", Blank>>, <<"Flour", ".">>, <<"(", "Flour", ")">>,
     <<"olive", Blank, "oil">>, <<Blank>>, <<"(">>}
TokenQuantities == {<<>>, <<"200">>, <<Blank, "200", Blank>>}
TokenUnits == {<<>>, <<"g">>, <<"g", Blank>>}

IngredientBodies ==
    {IngredientLine(pre, name, qty, unit, suf) :
        pre \in Prefixes, name \in TokenNames, qty \in TokenQuantities,
        unit \in TokenUnits, suf \in Suffixes}

\* one line: Wait ~name{qty%unit}, or Wait ~name{qty} when hasUnit is false
TimerLine(name, qty, hasUnit, unit) ==
    <<"Wait", Blank, "~">> \o name \o <<"{">> \o qty
        \o (IF hasUnit THEN <<"%">> \o unit ELSE <<>>) \o <<"}">>

TimerNames == {<<>>, <<"rest">>}
TimerQuantities == {<<>>, <<"10">>}
TimerUnits == {<<>>, <<"minutes">>}
TimerBodies ==
    {TimerLine(name, qty, hasUnit, unit) :
        name \in TimerNames, qty \in TimerQuantities, hasUnit \in BOOLEAN,
        unit \in TimerUnits}

\* Add @water{1%L} and #pot{}.
\*
\* Cook for ~{10%minutes}.
WaterBody ==
    <<"Add", Blank, "@", "water", "{", "1", "%", "L", "}", Blank, "and", Blank,
      "#", "pot", "{", "}", ".", Newline, Newline,
      "Cook", Blank, "for", Blank, "~", "{", "10", "%", "minutes", "}", ".">>

\* the lines of the bodies of several lines: lines with tokens, among them
\* tokens that differ in case only, a blank line, a note line, a bare ">"
StepLines ==
    {<<"@", "Flour", "{", "200", "%", "g", "}">>,
     <<"Add", Blank, "@", "flour", "{", "200", "%", "g", "}", Blank, "#", "Pot", "{", "}">>,
     <<"#", "pot", "{", "}", Blank, "~", "{", "10", "%", "min", "}">>,
     <<"~", "{", "10", "%", "min", "}", Blank, "~", "{", "}">>,
     <<Blank, "@", "flour", "{", "100", "%", "g", "}">>,
     <<Blank>>,
     <<">", Blank, "rest", Blank>>,
     <<">">>}

\* "\n".join(lines)
RECURSIVE JoinNewline(_)
JoinNewline(lines) ==
    IF Len(lines) = 1 THEN lines[1]
    ELSE lines[1] \o <<Newline>> \o JoinNewline(Tail(lines))

StepBodies ==
    {JoinNewline(ls) : ls \in UNION {[1..n -> StepLines] : n \in 1..MaxLines}}

Bodies == IngredientBodies \cup TimerBodies \cup {WaterBody} \cup StepBodies

(***************************************************************************)
(* Initial state: a vault and no output tree.                              *)
(***************************************************************************)
\* what a note page is made from: the note's text, the header include (the
\* header template with the navigation in it), the footer template and the
\* wikilink map of wikilinks.json
IncludesOf(ns, tm) ==
    [header |-> tm["header"],
     nav |-> build_nav(get_public_notes(ns), ns),
     wikilinks |-> build_wikilink_map(get_public_notes(ns), ns)]

SourceOf(ns, n) == [mtime |-> ns[n].mtime, title |-> ns[n].title, date |-> ns[n].date]

PageOf(ns, tm, n, inc) == <<[note |-> SourceOf(ns, n), inc |-> inc, footer |-> tm["footer"]]>>

\* no page and no include file was written yet
NoContent == [pages |-> [n \in Notes |-> <<>>], inc |-> <<>>, interrupted |-> FALSE]

NoRun ==
    [tick |-> FALSE, mode |-> "none", target |-> NoTarget, keep |-> FALSE,
     repeat |-> FALSE, hadCache |-> FALSE,
     branch |-> "none", exit |-> "ok", header_changed |-> FALSE, pruned |-> {},
     built |-> {}, indexBuilt |-> FALSE, changed |-> {}, cache |-> new_cache]

InitBuild ==
    /\ kind \in {"notes", "recipes"}
    /\ \E st \in (IF kind = "notes" THEN {"public", "private"} ELSE {"public"}) :
          notes = [n \in Notes |->
                     IF n = "a" \/ st = "public"
                     THEN [status |-> "public", mtime |-> 1, title |-> "", date |-> ""]
                     ELSE PrivateNote]
    /\ links = {"a"}
    /\ tmpl = [t \in {"header", "footer"} |-> 1]
    /\ about = 1
    /\ assetSrc = 1
    /\ staticSrc = [f \in StaticSources |-> IF f = StaticDir THEN 1 ELSE MaxTime]
    /\ outNotes = {}
    /\ outIndex = FALSE
    /\ includes = FALSE
    /\ dirs = {}
    /\ staticDst = [f \in StaticPaths |-> 0]
    /\ assetDst = 0
    /\ cacheFile = <<>>
    /\ written = NoContent
    /\ intact = TRUE
    /\ edits = 0
    /\ last = NoRun
    /\ \E there \in (IF kind = "recipes" THEN BOOLEAN ELSE {TRUE}) :
          recipes = [x \in Recipes |->
                       IF x = "r1"
                       THEN [present |-> TRUE, mtime |-> 1, title |-> "t1", refs |-> {"r2"}]
                       ELSE IF there
                            THEN [present |-> TRUE, mtime |-> 1, title |-> "t1", refs |-> {}]
                            ELSE NoRecipe]
    /\ rcache = EmptyMap
    /\ routs = {}
    /\ rbuilt = {}

\* dev.py is not running
NoServer == [pc |-> "none", pending |-> {}, procs |-> <<>>]

Init ==
    /\ InitBuild
    /\ body = <<>>
    /\ parsed = <<>>
    /\ dev = NoServer

\* a recipe file with one of the bodies, not parsed yet
InitParse ==
    /\ InitBuild
    /\ kind = "recipes"
    /\ body \in Bodies
    /\ parsed = <<>>
    /\ dev = NoServer

(***************************************************************************)
(* One invocation of build.py.  The invocation ends in the run record r:   *)
(* the output tree it leaves and what it reports.                          *)
(***************************************************************************)
Ends(mode, target, keep, r, branch) ==
    /\ outNotes' = r.outNotes
    /\ outIndex' = r.outIndex
    /\ includes' = r.includes
    /\ dirs' = r.dirs
    /\ staticDst' = r.staticDst
    /\ assetDst' = r.assetDst
    /\ cacheFile' = r.cacheFile
    \* the include files are written when header_changed, and the pages built
    \* by this invocation are made from the include files as they then are
    /\ \E inc \in {IF r.header_changed \/ written.inc = <<>>
                    THEN <<IncludesOf(notes, tmpl)>> ELSE written.inc} :
          written' = [pages |-> [n \in Notes |->
                                   IF n \in r.built THEN PageOf(notes, tmpl, n, inc[1])
                                   ELSE IF n \in r.outNotes THEN written.pages[n]
                                   ELSE <<>>],
                      inc |-> IF r.includes THEN inc ELSE <<>>,
                      interrupted |-> IF r.exit = "killed" THEN TRUE
                                      ELSE IF r.exit = "ok" THEN FALSE
                                      ELSE written.interrupted]
    \* an invocation that pruned and then failed has changed the output tree
    \* without saving the cache
    /\ intact' = (intact /\ (r.exit = "ok" \/ r.pruned = {}))
    /\ \E nl \in {[tick |-> FALSE, mode |-> mode, target |-> target,
                     keep |-> keep,
                     \* a default-mode invocation that follows another one with
                     \* the same retention flag, with no edit in between
                     repeat |-> (mode = "default" /\ last.mode = mode
                                 /\ last.keep = keep),
                     hadCache |-> cacheFile # <<>>,
                     branch |-> branch, exit |-> r.exit,
                     header_changed |-> r.header_changed, pruned |-> r.pruned,
                     built |-> r.built, indexBuilt |-> r.indexBuilt,
                     changed |-> r.changed, cache |-> r.cache]} :
          \* an invocation that leaves everything as it found it is still a
          \* step: it flips tick
          last' = IF nl = last /\ r.cacheFile = cacheFile /\ r.outNotes = outNotes
                     /\ r.outIndex = outIndex /\ r.includes = includes
                     /\ r.dirs = dirs /\ r.staticDst = staticDst
                     /\ r.assetDst = assetDst /\ r.exit = "ok"
                  THEN [nl EXCEPT !.tick = TRUE]
                  ELSE nl
    /\ UNCHANGED <<srcVars, edits, kind, recipeVars, parseVars>>

\* every invocation takes the full rebuild
FullRebuild_always(mode, header_changed) == TRUE

\* if args.all or header_changed
FullRebuild(mode, header_changed) == mode = "all" \/ header_changed

main(mode, target, keep) ==
    IF mode = "clean" THEN Ends(mode, target, keep, CleanRun, "clean")
    ELSE
    \E pub \in {get_public_notes(notes)} :
    \E r1 \in {prune_private_notes(StartRun(Disk), pub)} :
    \* an uncaught exception ends the invocation where it is raised
    IF r1.exit # "ok" THEN Ends(mode, target, keep, r1, "none") ELSE
    \E nav_hash \in {build_nav(pub, notes)} :
    \E wikilinks_hash \in {WikilinksHash(pub, notes)} :
    \E header_mtime \in {tmpl["header"]}, footer_mtime \in {tmpl["footer"]} :
    \E header_changed \in {includes_changed(r1.cache, header_mtime, footer_mtime,
                                            nav_hash, wikilinks_hash, r1.includes)} :
    \* write_header_include, write_wikilinks_meta
    \E r2 \in {[r1 EXCEPT !.includes = @ \/ header_changed,
                          !.header_changed = header_changed]} :
    LET fin(r) == IF r.exit # "ok" THEN r
                  ELSE Finish(r, keep, header_mtime, footer_mtime, nav_hash,
                              wikilinks_hash)
        assets(r) == IF r.exit # "ok" THEN r
                     ELSE sync_note_assets(r, links, pub, assetSrc)
    IN  IF FullRebuild(mode, header_changed) THEN
            \E a \in {BuildAll(r2, notes, pub, 1)} :
            \E b \in {BuildIndexStep(a, about)} :
            \E c \in {sync_static_items(b, staticSrc)} :
            \E d \in {assets(c)} :
            \E e \in {fin(d)} : Ends(mode, target, keep, e, "full")
        ELSE IF mode = "note" THEN
            IF ~TargetExists(notes, target) THEN
                \* sys.exit(1): nothing is saved
                Ends(mode, target, keep, [r2 EXCEPT !.exit = "fatal"], "note")
            ELSE IF notes[target].status # "public" THEN
                \E a \in {IndexIfStale(r2, notes, pub, about)} :
                \E b \in {sync_note_assets(a, links, pub, assetSrc)} :
                \E c \in {[b EXCEPT !.cache = update_includes_cache(@, header_mtime,
                                        footer_mtime, nav_hash, wikilinks_hash)]} :
                \E d \in {sync_static_items(c, staticSrc)} :
                \E e \in {fin(d)} : Ends(mode, target, keep, e, "skip")
            ELSE
                \E a \in {BuildNoteStep(r2, notes, target)} :
                \E b \in {IndexIfStale(a, notes, pub, about)} :
                \E c \in {sync_note_assets(b, links, pub, assetSrc)} :
                \E d \in {sync_static_items(c, staticSrc)} :
                \E e \in {fin(d)} : Ends(mode, target, keep, e, "note")
        ELSE IF mode = "index" THEN
            \E a \in {BuildIndexStep(r2, about)} :
            \E b \in {sync_static_items(a, staticSrc)} :
            \E e \in {fin(b)} : Ends(mode, target, keep, e, "index")
        ELSE IF mode = "static" THEN
            \E a \in {sync_static_items(r2, staticSrc)} :
            \E b \in {assets(a)} :
            \E e \in {fin(b)} : Ends(mode, target, keep, e, "static")
        ELSE
            \E a \in {BuildStale(r2, notes, pub, header_changed, 1)} :
            IF a.exit # "ok" THEN Ends(mode, target, keep, a, "incremental") ELSE
            \E b \in {IndexIfStale(a, notes, pub, about)} :
            \E c \in {sync_static_items(b, staticSrc)} :
            \E d \in {assets(c)} :
            \E e \in {fin(d)} : Ends(mode, target, keep, e, "incremental")

RunBuild ==
    /\ kind = "notes"
    /\ \E mode \in Modes, keep \in BOOLEAN :
          \E target \in (IF mode = "note" THEN Targets ELSE {NoTarget}) :
              main(mode, target, keep)

(***************************************************************************)
(* What the user does between invocations.                                 *)
(***************************************************************************)
\* an edit ends the run of invocations that "last" describes
Edited ==
    /\ kind = "notes"
    /\ edits < MaxEdits
    /\ edits' = edits + 1
    /\ last' = NoRun
    /\ UNCHANGED <<kind, recipeVars, parseVars>>

EditNote ==
    \E n \in Notes, st \in NoteStates :
        /\ st # notes[n]
        /\ notes' = [notes EXCEPT ![n] = st]
        /\ Edited
        /\ UNCHANGED <<links, tmpl, about, assetSrc, staticSrc, outVars, intact>>

TouchTemplate ==
    \E t \in {"header", "footer"}, m \in Times :
        /\ m # tmpl[t]
        /\ tmpl' = [tmpl EXCEPT ![t] = m]
        /\ Edited
        /\ UNCHANGED <<notes, links, about, assetSrc, staticSrc, outVars, intact>>

EditAbout ==
    \E m \in 0..MaxTime :
        /\ m # about
        /\ about' = m
        /\ Edited
        /\ UNCHANGED <<notes, links, tmpl, assetSrc, staticSrc, outVars, intact>>

\* the user deletes a generated page
RemoveOutput ==
    /\ \/ \E n \in outNotes : outNotes' = outNotes \ {n} /\ outIndex' = outIndex
       \/ outIndex /\ outIndex' = FALSE /\ outNotes' = outNotes
    /\ Edited
    /\ intact' = FALSE
    /\ UNCHANGED <<srcVars, includes, dirs, staticDst, assetDst, cacheFile, written>>

\* the cache file is damaged between two invocations: it is no JSON, or no
\* JSON object, or its "notes" member is no object, or an entry lost fields
Without2(entry, field) == [f \in DOMAIN entry \ {field} |-> entry[f]]

CorruptCache ==
    /\ edits < MaxEdits
    /\ cacheFile # <<>>
    /\ cacheFile[1].form = "object"
    /\ IsDict(cacheFile[1].members.notes)
    /\ \/ cacheFile' = <<[form |-> "invalid", members |-> EmptyMap]>>
       \/ cacheFile' = <<[form |-> "array", members |-> EmptyMap]>>
       \/ cacheFile' = <<[form |-> "object",
                          members |-> [cacheFile[1].members EXCEPT !.notes = NotADict]]>>
       \/ \E n \in DOMAIN cacheFile[1].members.notes, field \in {"output", "mtime"} :
             cacheFile' = <<[form |-> "object",
                             members |-> [cacheFile[1].members EXCEPT
                                            !.notes[n] = Without2(@, field)]]>>
       \/ \E n \in DOMAIN cacheFile[1].members.notes :
             cacheFile' = <<[form |-> "object",
                             members |-> [cacheFile[1].members EXCEPT
                                            !.notes[n] = EmptyMap]]>>
    /\ Edited
    /\ UNCHANGED <<srcVars, outNotes, outIndex, includes, dirs, staticDst, assetDst,
                   written, intact>>

Next ==
    \/ RunBuild
    \/ EditNote
    \/ TouchTemplate
    \/ EditAbout
    \/ RemoveOutput
    \/ BuildRecipe
    \/ PruneRecipes
    \/ ReloadCache
    \/ EditRecipe

Spec == Init /\ [][Next]_vars

\* histories in which the cache file is damaged
NextCorrupt ==
    \/ RunBuild
    \/ CorruptCache

CorruptSpec == Init /\ [][NextCorrupt]_vars

\* load_recipe: the body of the recipe file is parsed
ParseBody ==
    /\ parsed = <<>>
    /\ parsed' = <<parse_cooklang(body)>>
    /\ UNCHANGED <<srcVars, outVars, intact, edits, last, kind, recipeVars, body, dev>>

NextParse == ParseBody
ParseSpec == InitParse /\ [][NextParse]_vars

\* the user touches, adds or removes a static source between two invocations
EditStatic ==
    /\ \/ \E f \in StaticPaths, m \in 1..MaxTime :
             /\ m # staticSrc[f]
             /\ staticSrc' = [staticSrc EXCEPT ![f] = m,
                                 ![StaticDir] = IF f = StaticDirFile THEN 1 ELSE @]
       \/ \E f \in StaticPaths :
             /\ staticSrc[f] > 0
             /\ staticSrc' = [staticSrc EXCEPT ![f] = 0]
       \/ /\ staticSrc[StaticDir] > 0
          /\ staticSrc' = [staticSrc EXCEPT ![StaticDir] = 0, ![StaticDirFile] = 0]
    /\ Edited
    /\ UNCHANGED <<notes, links, tmpl, about, assetSrc, outVars, intact>>

\* invocations of build.py over a static tree that changes between them
NextStatic == RunBuild \/ EditStatic
StaticSpec == Init /\ [][NextStatic]_vars

(***************************************************************************)
(* Functions of one call.  In CallSpec the variable body holds a call, the *)
(* name of a function and its arguments, and parsed what the call gives.   *)
(***************************************************************************)
\* a path is the sequence of its components; RECIPES_ROOT is /srv/recipes
RECIPES_ROOT == <<"srv", "recipes">>

\* Path.resolve(strict=False) of an absolute path without symbolic links:
\* "." and "" are dropped, ".." removes the component before it, if any
RECURSIVE Resolve(_, _)
Resolve(done, rest) ==
    IF rest = <<>> THEN done
    ELSE Only({Resolve(d, Tail(rest)) :
                 d \in {IF Head(rest) \in {"", "."} THEN done
                        ELSE IF Head(rest) # ".." THEN Append(done, Head(rest))
                        ELSE IF done = <<>> THEN done
                        ELSE SubSeq(done, 1, Len(done) - 1)}})

\* Path.with_suffix(".cook") of a last component whose suffix is not .cook
WithCookSuffix(c) ==
    CASE c = "x" -> "x.cook" [] c = "x.txt" -> "x.cook" [] c = "x.cook" -> "x.cook"
      [] c = "sub" -> "sub.cook" [] c = "recipes" -> "recipes.cook"
      [] c = ".." -> "...cook"

NoReference == [kind |-> "none", path |-> <<>>]

\* resolve_recipe_reference that returns the candidate wherever it lies
resolve_unchecked(name, dir) == IF ~(Len(name) >= 2 /\ name[1] \in {".", ".."}) THEN NoReference ELSE [kind |-> "path", path |-> Resolve(<<>>, dir \o SelectSeq(name, LAMBDA c : c \notin {"", "."}))]

\* name is the stripped name split at "/", dir the directory of the recipe
\* file below RECIPES_ROOT
resolve_recipe_reference(name, dir) ==
    \* stripped.startswith(("./", "../"))
    IF ~(Len(name) >= 2 /\ name[1] \in {".", ".."}) THEN NoReference
    ELSE LET ref_path == SelectSeq(name, LAMBDA c : c \notin {"", "."})
         IN  \* with_suffix: ValueError, the path has an empty name
             IF ref_path = <<>> THEN [kind |-> "raise", path |-> <<>>]
             ELSE LET candidate ==
                         Resolve(<<>>, RECIPES_ROOT \o dir \o
                                 [ref_path EXCEPT ![Len(ref_path)] = WithCookSuffix(@)])
                  IN  IF Len(candidate) >= 2 /\ SubSeq(candidate, 1, 2) = RECIPES_ROOT
                      THEN [kind |-> "path",
                            path |-> SubSeq(candidate, 3, Len(candidate))]
                      ELSE NoReference

PathComponents == {"", ".", "..", "x", "x.txt", "x.cook", "sub", "recipes"}
RecipeDirs == {<<>>, <<"sub">>}
ReferenceCalls ==
    [fn : {"resolve_recipe_reference"},
     name : UNION {[1..n -> PathComponents] : n \in 1..MaxComponents},
     dir : RecipeDirs]

\* a string is the sequence of its characters; those of the quantities
Digits == {"0", "3"}
QuantityChars == {Blank, "=", ".", "a"} \cup Digits

\* DECIMAL_RE.match: digits, then possibly a point and digits, to the end
DECIMAL_RE(s) ==
    LET stops == {k \in 1..Len(s) : s[k] \notin Digits}
    IN  \/ s # <<>> /\ stops = {}
        \/ \E k \in 2..(Len(s) - 1) : stops = {k} /\ s[k] = "."

\* float() of a plain decimal, as <<n, d>> for n/d with d the least power of ten
RECURSIVE DigitsValue(_, _)
DigitsValue(acc, ds) ==
    IF ds = <<>> THEN acc
    ELSE DigitsValue(10 * acc + (IF Head(ds) = "3" THEN 3 ELSE 0), Tail(ds))
RECURSIVE Lowest(_, _)
Lowest(n, d) == IF d > 1 /\ n % 10 = 0 THEN Lowest(n \div 10, d \div 10) ELSE <<n, d>>
Float(s) ==
    LET ds == SelectSeq(s, LAMBDA c : c \in Digits)
        point == {k \in 1..Len(s) : s[k] = "."}
        places == IF point = {} THEN 0 ELSE Len(s) - (CHOOSE k \in point : TRUE)
    IN  Lowest(DigitsValue(0, ds), 10 ^ places)

\* <<>> is None, else <<the number>>
parse_decimal(value) ==
    LET stripped == Strip(value)
    IN  IF stripped = <<>> \/ ~DECIMAL_RE(stripped) THEN <<>> ELSE <<Float(stripped)>>

\* normalize_quantity that leaves the "=" in the display string
normalize_quantity_keeps_prefix(raw) == [display |-> Strip(raw), value |-> parse_decimal(Strip(raw)), fixed |-> Strip(raw) # <<>> /\ Strip(raw)[1] = "="]

normalize_quantity(raw) ==
    LET stripped == Strip(raw)
    IN  IF stripped = <<>> THEN [display |-> <<>>, value |-> <<>>, fixed |-> FALSE]
        ELSE LET fixed == stripped[1] = "="
                 shown == IF fixed THEN Strip(Tail(stripped)) ELSE stripped
             IN  [display |-> shown,
                  value |-> IF shown # <<>> THEN parse_decimal(shown) ELSE <<>>,
                  fixed |-> fixed]

QuantityCalls ==
    [fn : {"normalize_quantity"},
     raw : UNION {[1..n -> QuantityChars] : n \in 0..MaxChars}]

NormalizeQuantity ==
    /\ parsed = <<>>
    /\ body.fn = "normalize_quantity"
    /\ parsed' = <<normalize_quantity(body.raw)>>
    /\ UNCHANGED <<srcVars, outVars, intact, edits, last, kind, recipeVars, body, dev>>

\* the characters of a frontmatter value
Quote == "\""
FieldChars == {Blank, "a", Quote}

\* notes.parse_frontmatter, build.parse_frontmatter: value.strip().strip("\"'")
parse_frontmatter_value(rest) == LStrip(RStrip(Strip(rest), {Quote}), {Quote})

\* books.strip_quotes
strip_quotes(value) ==
    LET trimmed == Strip(value)
    IN  IF Len(trimmed) < 2 THEN trimmed
        ELSE IF trimmed[1] = Quote /\ trimmed[Len(trimmed)] = Quote
             THEN Strip(SubSeq(trimmed, 2, Len(trimmed) - 1))
             ELSE trimmed

\* build.make_metadata_hash on strings of characters: md5 of f"{title}|{date}"
note_metadata_hash(title, date) == MD5(title \o <<"|">> \o date)

\* books.make_metadata_hash: md5 of the stripped fields joined by "|"
books_make_metadata_hash(title, author) == MD5(Strip(title) \o <<"|">> \o Strip(author))

\* the title and the metadata hash that load_note_info, load_recipe and
\* load_book give an item whose frontmatter has "title:" followed by rest; the
\* date of the note and the author of the book are fixed, the other fields of
\* a book are treated like its author
ItemDate == <<"d">>
ItemStem == <<"s">>
LoadItem(item, rest) ==
    CASE item = "notes" ->
            LET title == parse_frontmatter_value(rest)
            IN  [title |-> title, metadata_hash |-> note_metadata_hash(title, ItemDate)]
      [] item = "recipes" ->
            LET fm == parse_frontmatter_value(rest)
                title == IF fm # <<>> THEN fm ELSE ItemStem
            IN  [title |-> title, metadata_hash |-> recipe_metadata_hash(title)]
      [] item = "books" ->
            LET fm == Strip(strip_quotes(Strip(rest)))
                title == IF fm # <<>> THEN fm ELSE ItemStem
            IN  [title |-> title,
                 metadata_hash |-> books_make_metadata_hash(title, Strip(<<"b">>))]

HashCalls ==
    [fn : {"make_metadata_hash"},
     item : {"notes", "recipes", "books"},
     first : UNION {[1..n -> FieldChars] : n \in 0..MaxFieldChars},
     second : UNION {[1..n -> FieldChars] : n \in 0..MaxFieldChars}]

HashItems ==
    /\ parsed = <<>>
    /\ body.fn = "make_metadata_hash"
    /\ parsed' = <<<<LoadItem(body.item, body.first), LoadItem(body.item, body.second)>>>>
    /\ UNCHANGED <<srcVars, outVars, intact, edits, last, kind, recipeVars, body, dev>>

\* a status is a sequence of words, blanks, "_" and "-"
STATUS_ORDER == {<<"reading">>, <<"finished">>, <<"to", "-", "read">>}

\* normalize_status that compares the raw status as it is
normalize_status_exact(raw) == IF raw \in STATUS_ORDER THEN raw ELSE <<"to", "-", "read">>

normalize_status(raw) ==
    LET lowered == Lower(Strip(raw))
        status == [k \in 1..Len(lowered) |-> IF lowered[k] = "_" THEN "-" ELSE lowered[k]]
    IN  IF status \in STATUS_ORDER THEN status ELSE <<"to", "-", "read">>

StatusCalls ==
    [fn : {"normalize_status"},
     raw : UNION {[1..n -> {Blank, "_", "-", "reading", "Reading", "finished",
                            "to", "read", "In", "progress"}] :
                    n \in 0..MaxStatusWords}]

NormalizeStatus ==
    /\ parsed = <<>>
    /\ body.fn = "normalize_status"
    /\ parsed' = <<normalize_status(body.raw)>>
    /\ UNCHANGED <<srcVars, outVars, intact, edits, last, kind, recipeVars, body, dev>>

\* a line of a daily file: the state of its checkbox ("none" when
\* CHECKBOX_RE does not match) and what HABIT_TAG_RE.findall gives
HabitLine(state, tags) == [state |-> state, tags |-> tags]
HabitLines ==
    {HabitLine("none", <<"a">>), HabitLine(" ", <<>>),
     HabitLine(" ", <<"a">>), HabitLine("x", <<"a">>), HabitLine("X", <<"a">>),
     HabitLine(" ", <<"b">>), HabitLine("x", <<"b">>),
     HabitLine(" ", <<"c">>), HabitLine("x", <<"c">>),
     HabitLine(" ", <<"a", "b">>), HabitLine("x", <<"b", "a">>)}

\* the body of the loop over the lines with the last occurrence of a tag
\* deciding its status
habits_last_wins(habits, line) == IF line.state = "none" \/ line.tags = <<>> THEN habits ELSE [t \in DOMAIN habits \cup {line.tags[k] : k \in 1..Len(line.tags)} |-> IF \E k \in 1..Len(line.tags) : line.tags[k] = t THEN line.state \in {"x", "X"} ELSE habits[t]]

\* the body of the loop over the lines; habits maps a tag to its status
habits_of_line(habits, line) ==
    IF line.state = "none" THEN habits
    ELSE IF line.tags = <<>> THEN habits
    ELSE LET is_checked == line.state \in {"x", "X"}
             tags == {line.tags[k] : k \in 1..Len(line.tags)}
         IN  [t \in DOMAIN habits \cup tags |->
                IF t \notin tags THEN habits[t]
                ELSE IF t \notin DOMAIN habits THEN is_checked
                ELSE habits[t] \/ is_checked]

RECURSIVE HabitsLoop(_, _)
HabitsLoop(habits, lines) ==
    IF lines = <<>> THEN habits
    ELSE Only({HabitsLoop(h, Tail(lines)) : h \in {habits_of_line(habits, Head(lines))}})

\* a file is [exists, lines]; a file that cannot be read gives no habits
parse_habits_from_file(file) ==
    IF ~file.exists THEN <<>> ELSE HabitsLoop(<<>>, file.lines)

\* data_by_date[day]: None, or HabitDay(total, checked)
NoData == [data |-> FALSE, total |-> 0, checked |-> 0]

\* HabitDay that keeps a day whose file has no habit
HabitDay_keeps_empty(file) == IF ~file.exists THEN NoData ELSE [data |-> TRUE, total |-> Cardinality(DOMAIN parse_habits_from_file(file)), checked |-> Cardinality({t \in DOMAIN parse_habits_from_file(file) : parse_habits_from_file(file)[t]})]

HabitDay(file) ==
    IF ~file.exists THEN NoData
    ELSE LET habits_for_day == parse_habits_from_file(file)
         IN  IF DOMAIN habits_for_day = {} THEN NoData
             ELSE [data |-> TRUE,
                   total |-> Cardinality(DOMAIN habits_for_day),
                   checked |-> Cardinality({t \in DOMAIN habits_for_day :
                                              habits_for_day[t]})]

HabitCalls ==
    [fn : {"parse_habits_from_file"},
     file : [exists : {TRUE},
             lines : UNION {[1..n -> HabitLines] : n \in 0..MaxHabitLines}]
            \cup {[exists |-> FALSE, lines |-> <<>>]}]

HabitsOfDay ==
    /\ parsed = <<>>
    /\ body.fn = "parse_habits_from_file"
    /\ parsed' = <<[habits |-> parse_habits_from_file(body.file),
                    day |-> HabitDay(body.file)]>>
    /\ UNCHANGED <<srcVars, outVars, intact, edits, last, kind, recipeVars, body, dev>>

\* HabitDay.ratio: checked / total as the fraction <<n, d>>, 0 when total is 0.
\* The division is exact for the comparisons below: a quotient of two counts
\* below 2^53 that is not 1/4, 1/2 or 3/4 is not rounded onto one of them
Ratio(day) == IF day.total = 0 THEN <<0, 1>> ELSE <<day.checked, day.total>>

\* ratio_to_level with the first boundary put in the lower level
ratio_to_level_quarter_low(ratio) == IF ratio[1] <= 0 THEN 0 ELSE IF 4 * ratio[1] <= ratio[2] THEN 1 ELSE IF 2 * ratio[1] < ratio[2] THEN 2 ELSE IF 4 * ratio[1] < 3 * ratio[2] THEN 3 ELSE 4

ratio_to_level(ratio) ==
    LET n == ratio[1]
        d == ratio[2]
    IN  IF n <= 0 THEN 0
        ELSE IF 4 * n < d THEN 1
        ELSE IF 2 * n < d THEN 2
        ELSE IF 4 * n < 3 * d THEN 3
        ELSE 4

HabitDays == {[total |-> t, checked |-> c] : t \in 0..MaxTotal, c \in 0..MaxTotal}
LevelCalls ==
    [fn : {"ratio_to_level"},
     first : {day \in HabitDays : day.checked <= day.total},
     second : {day \in HabitDays : day.checked <= day.total}]

LevelOfDays ==
    /\ parsed = <<>>
    /\ body.fn = "ratio_to_level"
    /\ parsed' = <<<<ratio_to_level(Ratio(body.first)), ratio_to_level(Ratio(body.second))>>>>
    /\ UNCHANGED <<srcVars, outVars, intact, edits, last, kind, recipeVars, body, dev>>

\* a date is the number of its day, day 0 being a Monday; date.weekday() is 0
\* on Mondays and 6 on Sundays
weekday(day) == day % 7

iter_days(start, end) == [k \in 1..(end - start + 1) |-> start + k - 1]

\* [days[i : i + 7] for i in range(0, len(days), 7)]
chunk_weeks(start, end) ==
    LET days == iter_days(start, end)
    IN  [w \in 1..((Len(days) + 6) \div 7) |->
            SubSeq(days, 7 * (w - 1) + 1,
                   IF 7 * w < Len(days) THEN 7 * w ELSE Len(days))]

\* the grid cut from the first day of the range on
Grid_from_range_start(from_date, to_date) == [start_grid |-> from_date, end_grid |-> to_date + (6 - weekday(to_date)), weeks |-> chunk_weeks(from_date, to_date + (6 - weekday(to_date)))]

\* main: start_grid, end_grid and weeks
Grid(from_date, to_date) ==
    LET start_grid == from_date - weekday(from_date)
        end_grid == to_date + (6 - weekday(to_date))
    IN  [start_grid |-> start_grid, end_grid |-> end_grid,
         weeks |-> chunk_weeks(start_grid, end_grid)]

\* main stops when from_date > to_date
GridCalls ==
    {c \in [fn : {"chunk_weeks"}, from_date : 0..MaxDay, to_date : 0..MaxDay] :
        c.from_date <= c.to_date}

GridOfRange ==
    /\ parsed = <<>>
    /\ body.fn = "chunk_weeks"
    /\ parsed' = <<Grid(body.from_date, body.to_date)>>
    /\ UNCHANGED <<srcVars, outVars, intact, edits, last, kind, recipeVars, body, dev>>

\* recipes_index_needs_rebuild without the comparison of the key sets
recipes_index_needs_rebuild_no_keys(exists, cached, current) == ~exists \/ \E x \in DOMAIN current : (IF x \in DOMAIN cached THEN cached[x] ELSE "") # current[x]

\* exists: recipes/index.html is there; cached maps the keys of
\* cache["recipes"] to the metadata_hash of their entry ("" for an entry
\* without one); current maps str(recipe.rel) to recipe.metadata_hash.
\* books_index_needs_rebuild is the same code on cache["books"]
recipes_index_needs_rebuild(exists, cached, current) ==
    IF ~exists THEN TRUE
    ELSE IF DOMAIN cached # DOMAIN current THEN TRUE
    ELSE \E x \in DOMAIN current :
            (IF x \in DOMAIN cached THEN cached[x] ELSE "") # current[x]

IndexCalls ==
    [fn : {"recipes_index_needs_rebuild"},
     exists : BOOLEAN,
     cached : UNION {[S -> {"", "h1", "h2"}] : S \in SUBSET {"r1", "r2"}},
     current : UNION {[S -> {"h1", "h2"}] : S \in SUBSET {"r1", "r2"}}]

IndexNeedsRebuild ==
    /\ parsed = <<>>
    /\ body.fn = "recipes_index_needs_rebuild"
    /\ parsed' = <<recipes_index_needs_rebuild(body.exists, body.cached, body.current)>>
    /\ UNCHANGED <<srcVars, outVars, intact, edits, last, kind, recipeVars, body, dev>>

\* a text is written with the atoms "---", "-", Newline, Blank and "a"; its
\* characters are those with each "---" spelled out
RECURSIVE Characters(_)
Characters(text) ==
    IF text = <<>> THEN <<>>
    ELSE (IF Head(text) = "---" THEN <<"-", "-", "-">> ELSE <<Head(text)>>)
            \o Characters(Tail(text))

\* FRONTMATTER_RE.match on the characters s: "---", whitespace up to a
\* newline at j (as much as lets the rest match), the shortest block, and a
\* newline at e followed by "---".  <<>> when there is no match, else <<j, e>>
FRONTMATTER_RE(s) ==
    LET n == Len(s)
        closings(j) == {e \in (j + 1)..(n - 3) :
                          s[e] = Newline /\ s[e + 1] = "-" /\ s[e + 2] = "-" /\ s[e + 3] = "-"}
        openings == {j \in 4..n :
                       /\ s[j] = Newline
                       /\ \A k \in 4..(j - 1) : s[k] \in {Blank, Newline}
                       /\ closings(j) # {}}
    IN  IF n < 3 \/ SubSeq(s, 1, 3) # <<"-", "-", "-">> \/ openings = {} THEN <<>>
        ELSE LET j == CHOOSE j \in openings : \A k \in openings : k <= j
             IN  <<j, CHOOSE e \in closings(j) : \A k \in closings(j) : e <= k>>

\* block is match.group(1), the text parse_frontmatter_block reads; without
\* a match the mapping is empty
split_frontmatter(s) ==
    LET match == FRONTMATTER_RE(s)
    IN  IF match = <<>> THEN [matched |-> FALSE, block |-> <<>>, body |-> s]
        ELSE [matched |-> TRUE,
              block |-> SubSeq(s, match[1] + 1, match[2] - 1),
              body |-> LStrip(SubSeq(s, match[2] + 4, Len(s)), {Newline})]

TextCalls ==
    [fn : {"split_frontmatter"},
     text : UNION {[1..n -> {"---", "-", Newline, Blank, "a"}] : n \in 0..MaxTextAtoms}]

SplitFrontmatter ==
    /\ parsed = <<>>
    /\ body.fn = "split_frontmatter"
    /\ parsed' = <<split_frontmatter(Characters(body.text))>>
    /\ UNCHANGED <<srcVars, outVars, intact, edits, last, kind, recipeVars, body, dev>>

\* a file system around the output root: paths are sequences of components
\* from the directory that holds BUILD_DIR; that directory and BUILD_DIR are
\* always there
BUILD_DIR == <<"build">>
FsFiles == {<<"build", "i.html">>, <<"build", "d", "p.html">>, <<"other", "s.txt">>}
FsDirs == {<<"build", "d">>, <<"other">>}
FileSystems ==
    {fs \in [files : SUBSET FsFiles, dirs : SUBSET FsDirs] :
        \A f \in fs.files : Len(f) = 2 \/ SubSeq(f, 1, Len(f) - 1) \in fs.dirs}
FsExists(fs, path) ==
    LET real == Resolve(<<>>, path)
    IN  real \in fs.files \cup fs.dirs \cup {<<>>, BUILD_DIR}
FsNonEmpty(fs, dir) ==
    \E p \in fs.files \cup fs.dirs \cup {BUILD_DIR} :
        Len(p) = Len(dir) + 1 /\ SubSeq(p, 1, Len(dir)) = dir

\* cleanup_empty_dirs on the file system; current and stop are compared as
\* written, rmdir acts on the directory the path leads to
RECURSIVE cleanup_empty_dirs_fs(_, _, _)
cleanup_empty_dirs_fs(fs, current, stop) ==
    IF current = stop \/ ~FsExists(fs, current) THEN fs
    ELSE IF Resolve(<<>>, current) \notin fs.dirs
              \/ FsNonEmpty(fs, Resolve(<<>>, current)) THEN fs
    ELSE Only({cleanup_empty_dirs_fs(f, SubSeq(current, 1, Len(current) - 1), stop) :
                 f \in {[fs EXCEPT !.dirs = @ \ {Resolve(<<>>, current)}]}})

\* prune_private_notes, prune_removed_recipes: the loop body for one entry
\* that is not current; output is cached.get("output", "") split at "/"
prune_entry(fs, output) ==
    LET path == BUILD_DIR \o output
        real == Resolve(<<>>, path)
    IN  IF ~FsExists(fs, path) THEN [fs |-> fs, exit |-> "ok"]
        \* unlink of a directory raises
        ELSE IF real \notin fs.files THEN [fs |-> fs, exit |-> "raise"]
        ELSE [fs |-> cleanup_empty_dirs_fs([fs EXCEPT !.files = @ \ {real}],
                                           SubSeq(path, 1, Len(path) - 1), BUILD_DIR),
              exit |-> "ok"]

PruneCalls ==
    [fn : {"prune_private_notes"},
     fs : FileSystems,
     output : {<<>>, <<"i.html">>, <<"d", "p.html">>, <<"d">>, <<"gone.html">>,
               <<"..", "other", "s.txt">>, <<"..", "build", "i.html">>}]

PruneEntry ==
    /\ parsed = <<>>
    /\ body.fn = "prune_private_notes"
    /\ parsed' = <<prune_entry(body.fs, body.output)>>
    /\ UNCHANGED <<srcVars, outVars, intact, edits, last, kind, recipeVars, body, dev>>

InitCall ==
    /\ InitBuild
    /\ kind = "recipes"
    /\ parsed = <<>>
    /\ dev = NoServer
    /\ \/ body \in ReferenceCalls
       \/ body \in QuantityCalls
       \/ body \in HashCalls
       \/ body \in StatusCalls
       \/ body \in HabitCalls
       \/ body \in LevelCalls
       \/ body \in GridCalls
       \/ body \in IndexCalls
       \/ body \in TextCalls
       \/ body \in PruneCalls

ResolveReference ==
    /\ parsed = <<>>
    /\ body.fn = "resolve_recipe_reference"
    /\ parsed' = <<resolve_recipe_reference(body.name, body.dir)>>
    /\ UNCHANGED <<srcVars, outVars, intact, edits, last, kind, recipeVars, body, dev>>

NextCall ==
    \/ ResolveReference
    \/ NormalizeQuantity
    \/ HashItems
    \/ NormalizeStatus
    \/ HabitsOfDay
    \/ LevelOfDays
    \/ GridOfRange
    \/ IndexNeedsRebuild
    \/ SplitFrontmatter
    \/ PruneEntry
CallSpec == InitCall /\ [][NextCall]_vars

(***************************************************************************)
(* The dev server (dev.py).  Its one thread runs the initial build and     *)
(* then the watcher callbacks, one at a time; a callback is run_build,     *)
(* which starts build.py as a subprocess and waits for it.                 *)
(***************************************************************************)
\* the watches of __main__ and what their callbacks pass to build.py
Watches == {"notes", "templates", "static"}
BuildArgs(w) == IF w = "static" THEN "--static" ELSE ""

\* a build subprocess: it loads the cache file, persists or deletes it, and
\* exits; an error may end it earlier
Proc(args) == [args |-> args, phase |-> "started"]
NextPhases(phase) ==
    CASE phase = "started" -> {"cache_loaded", "exited"}
      [] phase = "cache_loaded" -> {"cache_saved", "exited"}
      [] phase = "cache_saved" -> {"exited"}
      [] OTHER -> {}

\* run_build that does not wait for the subprocess
run_build_returns_at_once(proc) == TRUE

\* subprocess.run returns when the subprocess has exited
run_build_returns(proc) == proc.phase = "exited"

InitDev ==
    /\ InitBuild
    /\ kind = "notes"
    /\ body = <<>>
    /\ parsed = <<>>
    /\ dev = [pc |-> "main", pending |-> {}, procs |-> <<>>]

DevUnchanged == UNCHANGED <<srcVars, outVars, intact, edits, last, kind, recipeVars, body, parsed>>

\* run_build("--all"), before the server exists
InitialBuild ==
    /\ dev.pc = "main"
    /\ dev' = [dev EXCEPT !.pc = "initial", !.procs = Append(@, Proc("--all"))]
    /\ DevUnchanged

\* server.serve(...)
Serve ==
    /\ dev.pc = "initial"
    /\ run_build_returns(dev.procs[Len(dev.procs)])
    /\ dev' = [dev EXCEPT !.pc = "serve"]
    /\ DevUnchanged

\* a file under a watch changes, whatever the server is doing
Notify ==
    /\ dev.pc # "main"
    /\ \E w \in Watches \ dev.pending : dev' = [dev EXCEPT !.pending = @ \cup {w}]
    /\ DevUnchanged

\* the server calls the callback of a watch with a change: build_incremental
\* or build_static, up to subprocess.run
Callback ==
    /\ dev.pc = "serve"
    /\ Len(dev.procs) < MaxBuilds
    /\ \E w \in dev.pending :
          dev' = [dev EXCEPT !.pc = "callback", !.pending = @ \ {w},
                             !.procs = Append(@, Proc(BuildArgs(w)))]
    /\ DevUnchanged

\* the callback returns
Return ==
    /\ dev.pc = "callback"
    /\ run_build_returns(dev.procs[Len(dev.procs)])
    /\ dev' = [dev EXCEPT !.pc = "serve"]
    /\ DevUnchanged

\* a build subprocess goes on
ProcStep ==
    /\ \E i \in 1..Len(dev.procs) : \E ph \in NextPhases(dev.procs[i].phase) :
          dev' = [dev EXCEPT !.procs[i].phase = ph]
    /\ DevUnchanged

NextDev == InitialBuild \/ Serve \/ Notify \/ Callback \/ Return \/ ProcStep
DevSpec == InitDev /\ [][NextDev]_vars

(***************************************************************************)
(* An invocation of build.py that is killed before it ends.  What it wrote *)
(* stays in the output tree, and the cache file is as the invocation found *)
(* it: save_cache and cleanup_build_artifacts are main's last calls.       *)
(***************************************************************************)
\* where the invocation stops: after prune_private_notes, after the include
\* files, after some of the note pages, or before the cache is persisted
CutPoints == {"pruned", "includes", "outputs", "unsaved"}

Interrupt ==
    /\ kind = "notes"
    /\ \E mode \in {"all", "default"}, keep \in BOOLEAN, cut \in CutPoints :
       \E pub \in {get_public_notes(notes)} :
       \E r1 \in {prune_private_notes(StartRun(Disk), pub)} :
       /\ r1.exit = "ok"
       /\ \E header_changed \in {includes_changed(r1.cache, tmpl["header"], tmpl["footer"],
                                                  build_nav(pub, notes),
                                                  WikilinksHash(pub, notes), r1.includes)} :
          \E r2 \in {[r1 EXCEPT !.includes = @ \/ header_changed,
                                !.header_changed = header_changed]} :
          \* the notes whose turn has come when the invocation stops
          \E k \in (IF cut = "outputs" THEN 1..Len(pub) ELSE {Len(pub)}) :
          \E r3 \in {IF FullRebuild(mode, header_changed)
                     THEN BuildAll(r2, notes, SubSeq(pub, 1, k), 1)
                     ELSE BuildStale(r2, notes, SubSeq(pub, 1, k), header_changed, 1)} :
          /\ r3.exit = "ok"
          /\ \E r4 \in {sync_note_assets(
                          sync_static_items(
                            IF FullRebuild(mode, header_changed)
                            THEN BuildIndexStep(r3, about)
                            ELSE IndexIfStale(r3, notes, pub, about), staticSrc),
                          links, pub, assetSrc)} :
             \E r \in {CASE cut = "pruned" -> r1
                         [] cut = "includes" -> r2
                         [] cut = "outputs" -> r3
                         [] OTHER -> r4} :
                Ends(mode, NoTarget, keep, [r EXCEPT !.exit = "killed"], "killed")

\* invocations that end and invocations that are killed, over a vault whose
\* notes and templates change between them
NextCrash ==
    \/ RunBuild
    \/ Interrupt
    \/ EditNote
    \/ TouchTemplate

CrashSpec == Init /\ [][NextCrash]_vars

(***************************************************************************)
(* Two vaults and one output tree.  main with --all, as a function of the  *)
(* vault it reads, is run from the same output tree and cache file on the  *)
(* vault as it is and on a twin of it that differs in the notes that are   *)
(* not public: in their text, their metadata, or in their being there.     *)
(***************************************************************************)
\* main(--all) up to its output: the run record it ends in
main_all(disk, ns, lk, keep) ==
    LET pub == get_public_notes(ns)
        r1 == prune_private_notes(StartRun(disk), pub)
        nav_hash == build_nav(pub, ns)
        wikilinks_hash == WikilinksHash(pub, ns)
        header_changed == includes_changed(r1.cache, tmpl["header"], tmpl["footer"],
                                           nav_hash, wikilinks_hash, r1.includes)
        r2 == [r1 EXCEPT !.includes = @ \/ header_changed,
                         !.header_changed = header_changed]
        a == BuildAll(r2, ns, pub, 1)
        b == BuildIndexStep(a, about)
        c == sync_static_items(b, staticSrc)
        d == IF c.exit # "ok" THEN c ELSE sync_note_assets(c, lk, pub, assetSrc)
    IN  IF r1.exit # "ok" THEN r1
        ELSE IF d.exit # "ok" THEN d
        ELSE Finish(d, keep, tmpl["header"], tmpl["footer"], nav_hash, wikilinks_hash)

\* what a note that is not public can be: private or absent, old or new, with
\* one title or the other
HiddenNotes ==
    {[status |-> "private", mtime |-> 1, title |-> "", date |-> ""],
     [status |-> "private", mtime |-> MaxTime, title |-> "b", date |-> "d1"],
     [status |-> "absent", mtime |-> 1, title |-> "b", date |-> ""],
     [status |-> "absent", mtime |-> MaxTime, title |-> "", date |-> "d1"]}

\* the vaults that differ from ns in nothing but the notes that are not public
Twins(ns) ==
    {tw \in [Notes -> HiddenNotes \cup {ns[n] : n \in Notes}] :
        \A n \in Notes : IF ns[n].status = "public" THEN tw[n] = ns[n]
                         ELSE tw[n] \in HiddenNotes}

\* the texts of the twin link to the asset where those of the vault do, but
\* for the notes that are not public
TwinLinks(ns, lk) ==
    {tl \in SUBSET Notes : \A n \in Notes : ns[n].status = "public" => (n \in tl <=> n \in lk)}

\* what is published of a vault: the pages with what they are made from, the
\* navigation and wikilink map, the index, and the rest of the run record
Published(ns, r) ==
    [run |-> r,
     includes |-> IncludesOf(ns, tmpl),
     pages |-> [n \in r.built |-> PageOf(ns, tmpl, n, IncludesOf(ns, tmpl))]]

TwinBuild ==
    /\ kind = "notes"
    /\ parsed = <<>>
    /\ \E keep \in BOOLEAN :
       \E one \in {Published(notes, main_all(Disk, notes, links, keep))} :
       \E tw \in Twins(notes), tl \in TwinLinks(notes, links) :
          parsed' = <<[differ |-> (tw # notes \/ tl # links),
                       one |-> one,
                       other |-> Published(tw, main_all(Disk, tw, tl, keep))]>>
    /\ UNCHANGED <<srcVars, outVars, intact, edits, last, kind, recipeVars, body, dev>>

\* the histories of Spec, as long as no twin was built
TwinRun == parsed = <<>> /\ RunBuild
TwinEdit == parsed = <<>> /\ EditNote

NextTwin ==
    \/ TwinRun
    \/ TwinEdit
    \/ TwinBuild

TwinSpec == Init /\ [][NextTwin]_vars

(***************************************************************************)
(* Vocabulary of the properties.                                           *)
(***************************************************************************)
\* the step is an invocation of build.py: every edit resets last to NoRun
BuildStep == last'.mode # "none"
\* the cache an invocation starting now would load
Loaded == load_cache(cacheFile)
Persisted == Loaded.notes
PublicSet == Range(get_public_notes(notes))
Pages == {OutPath(n) : n \in PublicSet} \cup {IndexPath}
\* the output tree after the step
TreeAfter == [outNotes |-> outNotes', dirs |-> dirs', assetDst |-> assetDst']
TreeNow == [outNotes |-> outNotes, dirs |-> dirs, assetDst |-> assetDst]

(***************************************************************************)
(* C1: idempotence of the default incremental build.                       *)
(***************************************************************************)
\* C1 as stated: the second of two default builds in succession, with no edit
\* in between, reports no changed output
C1_Idempotent == last.repeat => last.changed = {}

\* C1, amended: with --keep-artifacts on both runs the second run changes no
\* note page, no static file and no asset; it rebuilds index.html only when a
\* public note's metadata hash differs from the one in its cache entry.
\* Without --keep-artifacts the second run rebuilds every page
C1_IdempotentWhenKept ==
    last.repeat =>
        IF last.keep
        THEN /\ last.changed \subseteq {IndexPath}
             /\ IndexPath \in last.changed =>
                   \E n \in PublicSet :
                       last.cache.notes[n].metadata_hash # NoteHash(notes, n)
        ELSE last.changed = Pages

\* a second default build with retention that found nothing to do
C1_Witness ==
    /\ last.repeat /\ last.keep /\ last.branch = "incremental"
    /\ last.changed = {} /\ outNotes = PublicSet /\ outIndex

(***************************************************************************)
(* C2: a note that is not public has no page after a full build.           *)
(***************************************************************************)
\* C2: after a full build (--all) no output file exists at the output path of
\* a note that is not public, whatever the earlier builds and edits were
C2_NoPrivateOutput ==
    (last.mode = "all" /\ last.exit = "ok") =>
        \A n \in Notes : notes[n].status # "public" => n \notin outNotes

(***************************************************************************)
(* C3: pruning.                                                            *)
(***************************************************************************)
\* C3: an invocation in any mode that loads a cache with a key of a note that
\* is not public ends without that entry in its cache (and in the cache file
\* it saves) and without the entry's output file; when that file was on disk,
\* every directory above it, below the output root, is gone or holds something
C3_Pruning ==
    [][BuildStep =>
         \A k \in DOMAIN Persisted :
             k \notin PublicSet =>
                 /\ k \notin DOMAIN last'.cache.notes
                 /\ cacheFile' # <<>> /\ last'.exit = "ok"
                       => k \notin DOMAIN load_cache(cacheFile').notes
                 /\ ~OutputExists(TreeAfter, Persisted[k].output)
                 /\ OutputExists(TreeNow, Persisted[k].output) =>
                       \A p \in Ancestors(OutDir(KeyOfOutput(Persisted[k].output))) :
                           p \notin dirs' \/ DirNonEmpty(TreeAfter, p)]_vars

\* note "a" was withdrawn and pruned: its page, its directory build/d/a and
\* the then empty build/d are gone
C3_Witness ==
    /\ last.pruned = {"a"} /\ last.hadCache
    /\ "a" \notin outNotes /\ "d/a" \notin dirs /\ "d" \notin dirs
    /\ "b" \in outNotes

(***************************************************************************)
(* C4: cache entries and output files.                                     *)
(***************************************************************************)
\* C4 as stated: a note has an entry in the cache file if and only if its
\* output file exists
C4_EntryIffOutput ==
    intact => \A n \in Notes : n \in DOMAIN Persisted <=> n \in outNotes

\* C4, amended: a note with an entry in the cache file has its output file, at
\* the path the entry names; and the cache file a completed invocation leaves
\* has an entry for exactly the public notes.  An output file may exist with
\* no entry: after a build without --keep-artifacts there is no cache file
C4_EntryHasOutput ==
    intact =>
        /\ \A n \in DOMAIN Persisted :
               n \in outNotes /\ Persisted[n].output = OutPath(n)
        /\ (last.mode # "none" /\ last.exit = "ok" /\ cacheFile # <<>>)
               => DOMAIN Persisted = PublicSet

\* a cache file with entries survives an edit and a further build
C4_Witness ==
    /\ intact /\ edits > 0 /\ last.keep /\ last.hadCache
    /\ DOMAIN Persisted = Notes /\ outNotes = Notes

(***************************************************************************)
(* C5, C6, C7: which notes an invocation builds.                           *)
(***************************************************************************)
\* the shared layout inputs differ from the fingerprint in the loaded cache
LayoutChanged ==
    LET pub == get_public_notes(notes)
    IN  \/ tmpl["header"] > Loaded.header_mtime
        \/ tmpl["footer"] > Loaded.footer_mtime
        \/ build_nav(pub, notes) # Loaded.nav_hash
        \/ WikilinksHash(pub, notes) # Loaded.wikilinks_hash

\* C5: a default-mode invocation builds every public note that has no cache
\* entry, or whose cached output file is missing, or whose source mtime is
\* greater than the cached mtime
C5_StaleIsBuilt ==
    [][(BuildStep /\ last'.mode = "default") =>
         \A n \in PublicSet :
             (\/ n \notin DOMAIN Persisted
              \/ ~OutputExists(TreeNow, Persisted[n].output)
              \/ notes[n].mtime > Persisted[n].mtime)
             => /\ n \in last'.built
                /\ n \in outNotes'
                /\ OutPath(n) \in last'.changed]_vars

\* the incremental branch built the one note whose source was newer and left
\* the other alone
C5_Witness ==
    /\ last.mode = "default" /\ last.branch = "incremental"
    /\ last.built = {"a"} /\ PublicSet = Notes
    /\ last.cache.notes["a"].mtime = 2

\* C6: when a template is newer than the cached mtime, or the navigation hash
\* or the wikilink map hash differs from the cached one, the invocation (in any
\* mode but --clean) builds every public note
C6_LayoutRebuildsAll ==
    [][(BuildStep /\ last'.mode # "clean" /\ LayoutChanged) =>
         /\ last'.built = PublicSet
         /\ PublicSet \subseteq outNotes'
         /\ \A n \in PublicSet : OutPath(n) \in last'.changed]_vars

\* a --note invocation found a template newer than the cache says and built
\* both notes, none of which was edited
C6_Witness ==
    /\ last.mode = "note" /\ last.hadCache /\ last.header_changed
    /\ last.branch = "full" /\ last.built = Notes
    /\ tmpl["header"] > 1
    /\ \A n \in Notes : notes[n].mtime = 1

\* C7: a default-mode invocation that finds the layout inputs unchanged does
\* not build a public note that has a cache entry, an output file and a source
\* no newer than the cached mtime: the page stays, the entry stays as it was
\* (also in the cache file the invocation saves), and the path is not reported
C7_FreshIsSkipped ==
    [][(BuildStep /\ last'.mode = "default" /\ ~LayoutChanged) =>
         \A n \in PublicSet :
             (/\ n \in DOMAIN Persisted
              /\ OutputExists(TreeNow, Persisted[n].output)
              /\ ~(notes[n].mtime > Persisted[n].mtime))
             => /\ n \notin last'.built
                /\ OutPath(n) \notin last'.changed
                /\ n \in outNotes'
                /\ last'.cache.notes[n] = Persisted[n]
                /\ last'.keep => load_cache(cacheFile').notes[n] = Persisted[n]]_vars

\* a default-mode invocation after an edit of about.md rebuilt the index and
\* skipped both notes
C7_Witness ==
    /\ last.mode = "default" /\ last.branch = "incremental" /\ last.hadCache
    /\ last.built = {} /\ last.indexBuilt
    /\ outNotes = Notes /\ PublicSet = Notes

(***************************************************************************)
(* C8: the cache entry a build records.                                    *)
(***************************************************************************)
\* C8: the cache entry of a note or recipe built since the last edit holds the
\* source's mtime, its metadata hash, its output path and (recipes) the hashes
\* of the recipes it refers to, and the staleness check calls the item fresh
C8_EntryIsCurrent ==
    /\ \A n \in last.built :
          /\ last.cache.notes[n] =
                [mtime |-> notes[n].mtime,
                 metadata_hash |-> make_metadata_hash(notes[n].title, notes[n].date),
                 output |-> OutPath(n)]
          /\ ~needs_rebuild([cache |-> last.cache, outNotes |-> outNotes],
                            notes, n, FALSE)
    /\ \A x \in rbuilt :
          /\ rcache[x] =
                [mtime |-> recipes[x].mtime,
                 metadata_hash |-> MD5(recipes[x].title),
                 output |-> RecipeOutPath(x),
                 ref_hashes |-> [b \in recipes[x].refs |->
                                   IF recipes[b].present
                                   THEN MD5(recipes[b].title) ELSE EmptyStr]]
          /\ ~recipe_needs_rebuild(recipes, rcache, routs, x, FALSE)

\* both recipes are built and the entry of r1 records the hash of r2
C8_Witness ==
    /\ rbuilt = Recipes
    /\ "r2" \in DOMAIN rcache["r1"].ref_hashes
    /\ rcache["r1"].ref_hashes["r2"] # EmptyStr

(***************************************************************************)
(* C9: when the notes index is rebuilt.                                    *)
(***************************************************************************)
\* C9: a default-mode invocation rebuilds index.html if it is missing, or if a
\* public note's metadata hash differs from the one the previous invocation
\* cached, or if the set of public note keys differs from the cached keys, or
\* if the mtime of about.md differs from the cached one
C9_IndexRebuilt ==
    [][(BuildStep /\ last'.mode = "default") =>
         ((\/ ~outIndex
           \/ \E n \in PublicSet :
                 n \in DOMAIN Persisted
                 /\ Persisted[n].metadata_hash # NoteHash(notes, n)
           \/ DOMAIN Persisted # PublicSet
           \/ about # Loaded.about_md_mtime)
          => last'.indexBuilt)]_vars

(***************************************************************************)
(* C10: a recipe is stale when a recipe it refers to changed.              *)
(***************************************************************************)
\* C10: a recipe with a cache entry is stale for recipe_needs_rebuild whenever
\* the current metadata hash of a recipe B named in the entry's ref_hashes (the
\* empty string when B is gone) differs from the recorded hash
C10_RefChangeIsStale ==
    \A x \in Recipes :
        (recipes[x].present /\ x \in DOMAIN rcache) =>
            \A B \in DOMAIN rcache[x].ref_hashes :
                (IF recipes[B].present THEN MD5(recipes[B].title) ELSE EmptyStr)
                    # rcache[x].ref_hashes[B]
                => \A tc \in BOOLEAN :
                       recipe_needs_rebuild(recipes, rcache, routs, x, tc)

\* r1 was built while r2 existed, r2 was removed since, and nothing else makes
\* r1 stale
C10_Witness ==
    /\ "r1" \in DOMAIN rcache /\ "r1" \in routs
    /\ recipes["r1"].present
    /\ ~(recipes["r1"].mtime > rcache["r1"].mtime)
    /\ "r2" \in DOMAIN rcache["r1"].ref_hashes
    /\ rcache["r1"].ref_hashes["r2"] # EmptyStr
    /\ ~recipes["r2"].present

(***************************************************************************)
(* C11: cache entries persist across invocations.                          *)
(***************************************************************************)
\* C11: the recipe entries of the cache that one invocation saves are the
\* recipe entries the next invocation works with
C11_RecipeEntriesPersist == [][ReloadCache => rcache' = rcache]_vars

(***************************************************************************)
(* C12: a damaged cache file.                                              *)
(***************************************************************************)
\* C12: whatever the cache file holds, no invocation ends in an uncaught
\* exception
C12_CorruptionNeverFatal == last.mode # "none" => last.exit # "crash"

(***************************************************************************)
(* C13: the cache file at the end of an invocation.                        *)
(***************************************************************************)
\* C13: after an invocation in any mode but --clean that ended without error,
\* the cache file exists and holds the invocation's in-memory cache if
\* --keep-artifacts was given, and does not exist otherwise
C13_CacheFileAtEnd ==
    (last.mode \notin {"none", "clean"} /\ last.exit = "ok") =>
        IF last.keep
        THEN /\ cacheFile # <<>>
             /\ cacheFile[1].form = "object"
             /\ cacheFile[1].members = last.cache
             /\ load_cache(cacheFile) = last.cache
        ELSE cacheFile = <<>>

\* the private-note skip path of --note saved the cache over an older one
C13_Witness ==
    /\ last.mode = "note" /\ last.branch = "skip" /\ last.keep /\ last.hadCache
    /\ last.exit = "ok" /\ cacheFile # <<>>
    /\ DOMAIN last.cache.notes = {"a"}

(***************************************************************************)
(* C14, C15: --note with a target that is missing or not public.           *)
(***************************************************************************)
\* C14: an invocation with --note whose target does not exist ends with the
\* fatal exit and builds no note page and no index page
C14_MissingTargetIsFatal ==
    (last.mode = "note" /\ last.target = MissingTarget) =>
        /\ last.exit = "fatal"
        /\ last.built = {}
        /\ ~last.indexBuilt


\* C15: an invocation with --note whose target exists and is not public ends
\* successfully without building the target's page; it rebuilds index.html
\* when something was pruned or the index is stale against the loaded cache,
\* and it leaves every static file synced
C15_PrivateTargetSkipped ==
    [][(/\ BuildStep /\ last'.mode = "note"
        /\ last'.target \in Notes
        /\ notes[last'.target].status # "public") =>
         /\ last'.exit = "ok"
         /\ last'.target \notin last'.built
         /\ OutPath(last'.target) \notin last'.changed
         /\ (last'.pruned # {} => last'.indexBuilt)
         /\ ((\/ ~outIndex
              \/ \E n \in PublicSet :
                    \/ n \notin DOMAIN Persisted
                    \/ Persisted[n].metadata_hash # NoteHash(notes, n)
              \/ about # Loaded.about_md_mtime)
             => last'.indexBuilt)
         /\ \A f \in StaticPaths :
               staticDst'[f] > 0 /\ staticDst'[f] >= staticSrc[f]]_vars

\* --note b for the private note b took the skip path and rebuilt a stale index
C15_Witness ==
    /\ last.mode = "note" /\ last.branch = "skip" /\ last.target = "b"
    /\ notes["b"].status = "private"
    /\ last.exit = "ok" /\ last.built = {} /\ last.indexBuilt
    /\ \A f \in StaticPaths : staticDst[f] >= staticSrc[f]


SyncStep == BuildStep /\ last'.mode # "clean" /\ last'.exit = "ok"

C18_StaleDestinationRemoved ==
    [][(BuildStep /\ last'.mode # "clean" /\ last'.exit # "fatal") =>
         /\ last'.exit = "ok"
         /\ \A f \in StaticPaths :
               (staticSrc[f] = 0 /\ staticDst[f] > 0) => staticDst'[f] = 0]_vars


(***************************************************************************)
(* C19, C20: what the recipe parser yields.                                *)
(***************************************************************************)
\* a text as a step shows it: runs of blanks collapsed, ends trimmed
Norm(text) == Strip(Collapse(text, 1))
\* the steps of a body that is one paragraph with the given text
OneStep(text, ingredients) ==
    IF Norm(text) = <<>> THEN <<>>
    ELSE <<RecipeStep("step", Norm(text), ingredients)>>
\* the keys under which the ingredient tokens of a text are remembered
IngredientKeys(text) ==
    {<<Lower(i.name), i.quantity, i.unit>> :
        i \in Range(parse_cooklang(text).ingredients)}

WaterBodyParse ==
    /\ parsed[1].ingredients = <<Ingredient(<<"water">>, <<"1">>, <<"L">>)>>
    /\ parsed[1].cookware = <<Cookware(<<"pot">>)>>
    /\ parsed[1].timers = <<Timer(<<>>, <<"10">>, <<"minutes">>)>>
    /\ Len(parsed[1].steps) = 2
    /\ \A k \in 1..2 : parsed[1].steps[k].kind = "step"
    /\ parsed[1].steps[1].text =
          <<"Add", Blank, "water", Blank, "and", Blank, "pot", ".">>

\* C20 as stated: the two-paragraph body yields the ingredient (water, 1, L),
\* the cookware pot, the timer ('', 10, minutes) and two steps, the second
\* with the text Cook for (10 minutes).; every timer token is replaced by
\* name (qty unit)
C20_TimerText ==
    parsed # <<>> =>
        /\ body = WaterBody =>
              /\ WaterBodyParse
              /\ parsed[1].steps[2].text =
                    <<"Cook", Blank, "for", Blank, "(", "10", Blank, "minutes", ")", ".">>
        /\ \A name \in TimerNames, qty \in TimerQuantities, hasUnit \in BOOLEAN,
              unit \in TimerUnits :
              body = TimerLine(name, qty, hasUnit, unit) =>
                 parsed[1].steps =
                    OneStep(<<"Wait", Blank>> \o name \o <<Blank, "(">>
                               \o Duration(qty, IF hasUnit THEN unit ELSE <<>>)
                               \o <<")">>, <<>>)

\* C20, amended: the second step of the two-paragraph body has the text
\* Cook for 10 minutes.; a timer token is replaced by name (qty unit) when it
\* has a name and a quantity or unit, by the name alone when it has neither
\* quantity nor unit, and by qty unit alone when it has no name
C20_TimerTextByCase ==
    parsed # <<>> =>
        /\ body = WaterBody =>
              /\ WaterBodyParse
              /\ parsed[1].steps[2].text =
                    <<"Cook", Blank, "for", Blank, "10", Blank, "minutes", ".">>
        /\ \A name \in TimerNames, qty \in TimerQuantities, hasUnit \in BOOLEAN,
              unit \in TimerUnits :
              body = TimerLine(name, qty, hasUnit, unit) =>
                 LET duration == Duration(qty, IF hasUnit THEN unit ELSE <<>>)
                 IN  parsed[1].steps =
                        OneStep(<<"Wait", Blank>> \o
                                (IF name # <<>> /\ duration # <<>>
                                 THEN name \o <<Blank, "(">> \o duration \o <<")">>
                                 ELSE IF name # <<>> THEN name ELSE duration), <<>>)

\* the two-paragraph body was parsed into two steps and one timer
C20_Witness ==
    /\ body = WaterBody /\ parsed # <<>>
    /\ Len(parsed[1].steps) = 2
    /\ parsed[1].timers = <<Timer(<<>>, <<"10">>, <<"minutes">>)>>


(***************************************************************************)
(* C21, C22: the lists and the steps of a parsed recipe.                   *)
(***************************************************************************)
\* the timers a line of StepLines holds: the tokens ~{10%min}, in order
LineTimers(line) ==
    IF line = <<"#", "pot", "{", "}", Blank, "~", "{", "10", "%", "min", "}">>
       \/ line = <<"~", "{", "10", "%", "min", "}", Blank, "~", "{", "}">>
    THEN <<Timer(<<>>, <<"10">>, <<"min">>)>>
    ELSE <<>>

RECURSIVE TimersOfLines(_)
TimersOfLines(lines) ==
    IF lines = <<>> THEN <<>>
    ELSE LineTimers(Head(lines)) \o TimersOfLines(Tail(lines))

\* C21: the ingredient list of a parsed recipe holds no two entries with the
\* same lowercased name, quantity and unit, its cookware list no two entries
\* with the same lowercased name, and its timer list one entry for every
\* timer token that is not empty, in the order of the tokens, duplicates kept
C21_ListsDeduplicated ==
    parsed # <<>> =>
        /\ \A i, j \in 1..Len(parsed[1].ingredients) :
              (/\ Lower(parsed[1].ingredients[i].name)
                     = Lower(parsed[1].ingredients[j].name)
               /\ parsed[1].ingredients[i].quantity = parsed[1].ingredients[j].quantity
               /\ parsed[1].ingredients[i].unit = parsed[1].ingredients[j].unit)
              => i = j
        /\ \A i, j \in 1..Len(parsed[1].cookware) :
              Lower(parsed[1].cookware[i].name) = Lower(parsed[1].cookware[j].name)
              => i = j
        /\ body \in StepBodies =>
              parsed[1].timers = TimersOfLines(SplitLines(body, 1, <<>>))

\* a body with Flour and flour, Pot and pot, and the same timer three times
C21_Witness ==
    /\ parsed # <<>>
    /\ body \in StepBodies
    /\ Len(SplitLines(body, 1, <<>>)) = 3
    /\ Len(parsed[1].ingredients) = 1
    /\ Len(parsed[1].cookware) = 1
    /\ Len(parsed[1].timers) = 2
    /\ parsed[1].steps # <<>> /\ Len(parsed[1].steps[1].ingredients) = 1


\* the ingredient a line of StepLines holds
LineIngredients(line) ==
    IF line = <<"@", "Flour", "{", "200", "%", "g", "}">>
    THEN <<Ingredient(<<"Flour">>, <<"200">>, <<"g">>)>>
    ELSE IF line = <<"Add", Blank, "@", "flour", "{", "200", "%", "g", "}", Blank,
                     "#", "Pot", "{", "}">>
    THEN <<Ingredient(<<"flour">>, <<"200">>, <<"g">>)>>
    ELSE IF line = <<"@", "flour", "{", "100", "%", "g", "}">>
    THEN <<Ingredient(<<"flour">>, <<"100">>, <<"g">>)>>
    ELSE <<>>

\* cur, and the ingredient of the line unless cur has one with its lowercased
\* name, quantity and unit
WithLine(cur, ings) ==
    IF ings = <<>>
       \/ \E k \in 1..Len(cur) :
             /\ Lower(cur[k].name) = Lower(ings[1].name)
             /\ cur[k].quantity = ings[1].quantity
             /\ cur[k].unit = ings[1].unit
    THEN cur ELSE cur \o ings

\* the entries a body of StepLines lines must give, texts of steps left out:
\* cur holds the ingredients of the lines buffered so far, any tells whether
\* a line is buffered, bare whether a ">" with nothing after it gives a note
RECURSIVE EntriesOfLines(_, _, _, _, _)
EntriesOfLines(lines, i, cur, any, bare) ==
    LET flushed == IF any THEN <<RecipeStep("step", <<>>, cur)>> ELSE <<>>
    IN  IF i > Len(lines) THEN flushed
        ELSE IF Strip(lines[i]) = <<>>
        THEN flushed \o EntriesOfLines(lines, i + 1, <<>>, FALSE, bare)
        ELSE IF Head(Strip(lines[i])) = ">"
        THEN flushed
             \o (IF bare \/ Strip(Tail(Strip(lines[i]))) # <<>>
                 THEN <<RecipeStep("note", Strip(Tail(Strip(lines[i]))), <<>>)>>
                 ELSE <<>>)
             \o EntriesOfLines(lines, i + 1, <<>>, FALSE, bare)
        ELSE EntriesOfLines(lines, i + 1,
                            WithLine(cur, LineIngredients(Strip(lines[i]))), TRUE, bare)

\* the entries of the parsed recipe, texts of steps left out
ParsedEntries ==
    [k \in 1..Len(parsed[1].steps) |->
        IF parsed[1].steps[k].kind = "step"
        THEN [parsed[1].steps[k] EXCEPT !.text = <<>>]
        ELSE parsed[1].steps[k]]

\* C22 as stated: every step entry carries the ingredients of the lines
\* buffered since the last flush, without duplicates; a blank line and a ">"
\* line flush; every ">" line gives a note entry with the trimmed rest of the
\* line and no ingredients
C22_StepEntries ==
    (parsed # <<>> /\ body \in StepBodies) =>
        ParsedEntries = EntriesOfLines(SplitLines(body, 1, <<>>), 1, <<>>, FALSE, TRUE)

\* C22, amended: as stated, but a ">" line gives a note entry only when the
\* trimmed rest of the line is not empty; a ">" with nothing after it only
\* flushes
C22_StepEntriesNoteIfText ==
    (parsed # <<>> /\ body \in StepBodies) =>
        ParsedEntries = EntriesOfLines(SplitLines(body, 1, <<>>), 1, <<>>, FALSE, FALSE)

\* two steps with a note between them; the second step has an ingredient of
\* the first again
C22_Witness ==
    /\ parsed # <<>> /\ body \in StepBodies
    /\ Len(parsed[1].steps) = 3
    /\ parsed[1].steps[1].kind = "step" /\ parsed[1].steps[2].kind = "note"
    /\ parsed[1].steps[3].kind = "step"
    /\ parsed[1].steps[1].ingredients # <<>>
    /\ parsed[1].steps[3].ingredients = parsed[1].steps[1].ingredients
    /\ Len(parsed[1].ingredients) = 1


(***************************************************************************)
(* C23: a recipe reference stays inside the recipes root.                  *)
(***************************************************************************)
\* C23: when resolve_recipe_reference returns a path, the path has no ".."
\* and, taken from the recipes root, is the canonical place of the referenced
\* .cook file, which lies inside the recipes root; a name that does not start
\* with ./ or ../ gives no reference, and so does a reference whose file lies
\* outside the recipes root
C23_ReferenceInsideRoot ==
    (parsed # <<>> /\ body.fn = "resolve_recipe_reference") =>
        LET name == body.name
            named == SelectSeq(name, LAMBDA c : c \notin {"", "."})
            file == IF named = <<>> THEN named
                    ELSE [named EXCEPT ![Len(named)] = WithCookSuffix(@)]
            place == Resolve(<<>>, RECIPES_ROOT \o body.dir \o file)
            inside == Len(place) > 2 /\ SubSeq(place, 1, 2) = RECIPES_ROOT
        IN  /\ parsed[1].kind = "path" =>
                  /\ inside
                  /\ RECIPES_ROOT \o parsed[1].path = place
                  /\ \A k \in 1..Len(parsed[1].path) :
                        parsed[1].path[k] \notin {"", ".", ".."}
            /\ ~(Len(name) >= 2 /\ name[1] \in {".", ".."}) => parsed[1].kind = "none"
            /\ (named # <<>> /\ ~inside) => parsed[1].kind = "none"

\* ../x in a recipe of sub/ gave x.cook; the same name in a recipe of the
\* root would lead out of it
C23_Witness ==
    /\ parsed # <<>> /\ body.fn = "resolve_recipe_reference"
    /\ body.name = <<"..", "x">> /\ body.dir = <<"sub">>
    /\ parsed[1] = [kind |-> "path", path |-> <<"x.cook">>]


(***************************************************************************)
(* C24: normalize_quantity.                                                *)
(***************************************************************************)
\* C24: a quantity whose trimmed form begins with "=" is fixed and shows the
\* trimmed rest after the "="; any other non-empty quantity is not fixed and
\* shows its trimmed form; the number is present exactly when what is shown
\* is digits with an optional point and digits; "=3" gives ("3", 3, fixed)
C24_NormalizeQuantity ==
    (parsed # <<>> /\ body.fn = "normalize_quantity") =>
        LET r == parsed[1]
            t == Strip(body.raw)
            digits(s) == s # <<>> /\ \A k \in 1..Len(s) : s[k] \in Digits
            decimal(s) ==
                \/ digits(s)
                \/ \E k \in 1..Len(s) :
                      /\ s[k] = "."
                      /\ digits(SubSeq(s, 1, k - 1))
                      /\ digits(SubSeq(s, k + 1, Len(s)))
        IN  /\ (t # <<>> /\ t[1] = "=") =>
                  r.fixed /\ r.display = Strip(Tail(t))
            /\ (t # <<>> /\ t[1] # "=") =>
                  ~r.fixed /\ r.display = t
            /\ r.value # <<>> <=> decimal(r.display)
            /\ body.raw = <<"=", "3">> =>
                  r = [display |-> <<"3">>, value |-> <<<<3, 1>>>>, fixed |-> TRUE]
            /\ body.raw = <<"3", ".", "3", "0">> => r.value = <<<<33, 10>>>>

\* "= 3 " was normalised: shown as "3", worth 3, fixed
C24_Witness ==
    /\ parsed # <<>> /\ body.fn = "normalize_quantity"
    /\ body.raw = <<"=", Blank, "3", Blank>>
    /\ parsed[1] = [display |-> <<"3">>, value |-> <<<<3, 1>>>>, fixed |-> TRUE]


(***************************************************************************)
(* C25: the metadata hash and whitespace around the fields.                *)
(***************************************************************************)
\* C25: two items of one kind (notes, recipes, books) whose titles are equal
\* after trimming have the same metadata hash
C25_HashOfTrimmedFields ==
    (parsed # <<>> /\ body.fn = "make_metadata_hash") =>
        (Strip(parsed[1][1].title) = Strip(parsed[1][2].title)
            => parsed[1][1].metadata_hash = parsed[1][2].metadata_hash)


(***************************************************************************)
(* C26: the status of a book.                                              *)
(***************************************************************************)
\* C26: the status is one of reading, finished, to-read, and a raw status
\* that is not one of these three values is normalised to to-read
C26_StatusCanonical ==
    (parsed # <<>> /\ body.fn = "normalize_status") =>
        /\ parsed[1] \in {<<"reading">>, <<"finished">>, <<"to", "-", "read">>}
        /\ body.raw \notin {<<"reading">>, <<"finished">>, <<"to", "-", "read">>}
              => parsed[1] = <<"to", "-", "read">>

\* C26, amended: the status is one of reading, finished, to-read; it is the
\* raw status trimmed, in lower case and with "-" for "_" when that is one of
\* the three, and to-read otherwise
C26_StatusCanonicalForm ==
    (parsed # <<>> /\ body.fn = "normalize_status") =>
        LET t == Strip(body.raw)
            canonical ==
                [k \in 1..Len(t) |->
                    CASE t[k] = "_" -> "-" [] t[k] = "Reading" -> "reading"
                      [] t[k] = "In" -> "in" [] OTHER -> t[k]]
            three == {<<"reading">>, <<"finished">>, <<"to", "-", "read">>}
        IN  /\ parsed[1] \in three
            /\ parsed[1] = IF canonical \in three THEN canonical ELSE <<"to", "-", "read">>

\* In_progress became to-read
C26_Witness ==
    /\ parsed # <<>> /\ body.fn = "normalize_status"
    /\ body.raw = <<"In", "_", "progress">>
    /\ parsed[1] = <<"to", "-", "read">>


(***************************************************************************)
(* C27, C28: the habits of a day.                                          *)
(***************************************************************************)
\* the checklist lines of the file of the call that bear a habit tag
TaggedLines == {k \in 1..Len(body.file.lines) :
                  body.file.lines[k].state # "none" /\ body.file.lines[k].tags # <<>>}
LineChecked(k) == body.file.lines[k].state \in {"x", "X"}
LineBears(k, t) == \E j \in 1..Len(body.file.lines[k].tags) : body.file.lines[k].tags[j] = t

\* C27: a day with data has as total the number of habit-tagged checklist
\* lines of its file and as checked the number of those that are checked; a
\* day without a file has no data
C27_RatioOverLines ==
    (parsed # <<>> /\ body.fn = "parse_habits_from_file") =>
        /\ parsed[1].day.data =>
              /\ parsed[1].day.total = Cardinality(TaggedLines)
              /\ parsed[1].day.checked = Cardinality({k \in TaggedLines : LineChecked(k)})
        /\ ~body.file.exists => ~parsed[1].day.data

\* C27, amended: a day has data when its file has a habit-tagged checklist
\* line; its total is then the number of distinct tags those lines bear and
\* its checked the number of those tags that a checked line bears; three
\* lines with three tags, two of them checked, give 2 of 3; a day without a
\* file has no data
C27_RatioOverTags ==
    (parsed # <<>> /\ body.fn = "parse_habits_from_file") =>
        LET tags == {t \in {"a", "b", "c"} : \E k \in TaggedLines : LineBears(k, t)}
            done == {t \in tags : \E k \in TaggedLines : LineBears(k, t) /\ LineChecked(k)}
        IN  /\ parsed[1].day.data <=> (body.file.exists /\ TaggedLines # {})
            /\ parsed[1].day.data =>
                  /\ parsed[1].day.total = Cardinality(tags)
                  /\ parsed[1].day.checked = Cardinality(done)
            /\ body.file.lines = <<HabitLine("x", <<"a">>), HabitLine(" ", <<"b">>),
                                   HabitLine("x", <<"c">>)>>
                  => parsed[1].day = [data |-> TRUE, total |-> 3, checked |-> 2]

\* a file with a tag on a checked and on an open line was read: 1 of 1
C27_Witness ==
    /\ parsed # <<>> /\ body.fn = "parse_habits_from_file"
    /\ body.file.lines = <<HabitLine("x", <<"a">>), HabitLine(" ", <<"a">>)>>
    /\ parsed[1].day = [data |-> TRUE, total |-> 1, checked |-> 1]

\* C28: a tag of a day's file is checked if and only if a checked checklist
\* line bears it, whatever the order of the lines
C28_TagStatusIsOr ==
    (parsed # <<>> /\ body.fn = "parse_habits_from_file") =>
        /\ DOMAIN parsed[1].habits = {t \in {"a", "b", "c"} : \E k \in TaggedLines : LineBears(k, t)}
        /\ \A t \in DOMAIN parsed[1].habits :
              parsed[1].habits[t] <=> \E k \in TaggedLines : LineBears(k, t) /\ LineChecked(k)
        /\ LET n == Len(body.file.lines)
           IN  parsed[1].habits =
                  parse_habits_from_file([body.file EXCEPT
                      !.lines = [k \in 1..n |-> body.file.lines[n + 1 - k]]])

\* a tag was open on the first line, checked on the second and open on the
\* third: it is checked
C28_Witness ==
    /\ parsed # <<>> /\ body.fn = "parse_habits_from_file"
    /\ body.file.lines = <<HabitLine(" ", <<"a">>), HabitLine("x", <<"b", "a">>),
                           HabitLine(" ", <<"a", "b">>)>>
    /\ parsed[1].habits = [t \in {"a", "b"} |-> TRUE]


(***************************************************************************)
(* C29: the level of a ratio.                                              *)
(***************************************************************************)
\* C29: the level of a ratio checked/total is 0 for 0, 1 inside (0, 1/4),
\* 2 in [1/4, 1/2), 3 in [1/2, 3/4) and 4 in [3/4, 1], and of two ratios the
\* greater never has the lower level
C29_LevelOfRatio ==
    (parsed # <<>> /\ body.fn = "ratio_to_level") =>
        LET c1 == body.first.checked
            t1 == IF body.first.total = 0 THEN 1 ELSE body.first.total
            c2 == body.second.checked
            t2 == IF body.second.total = 0 THEN 1 ELSE body.second.total
        IN  /\ parsed[1][1] = 0 <=> c1 = 0
            /\ parsed[1][1] = 1 <=> (0 < c1 /\ 4 * c1 < t1)
            /\ parsed[1][1] = 2 <=> (t1 <= 4 * c1 /\ 2 * c1 < t1)
            /\ parsed[1][1] = 3 <=> (t1 <= 2 * c1 /\ 4 * c1 < 3 * t1)
            /\ parsed[1][1] = 4 <=> (3 * t1 <= 4 * c1 /\ c1 <= t1)
            /\ parsed[1][1] \in 0..4
            /\ c1 * t2 <= c2 * t1 => parsed[1][1] <= parsed[1][2]

\* 1 of 4 has level 2 and 3 of 4 has level 4
C29_Witness ==
    /\ parsed # <<>> /\ body.fn = "ratio_to_level"
    /\ body.first = [total |-> 4, checked |-> 1]
    /\ body.second = [total |-> 4, checked |-> 3]
    /\ parsed[1] = <<2, 4>>


(***************************************************************************)
(* C30: the grid of the heatmap.                                           *)
(***************************************************************************)
\* C30: for a range with from <= to the grid starts on the Monday on or
\* before the first day of the range and ends on the Sunday on or after its
\* last day; the weeks are the days of the grid in order, seven to a week, so
\* every day of the range is in a week
C30_GridWindow ==
    (parsed # <<>> /\ body.fn = "chunk_weeks") =>
        LET g == parsed[1]
            n == Len(g.weeks)
        IN  /\ g.start_grid % 7 = 0
            /\ g.start_grid <= body.from_date /\ body.from_date - g.start_grid < 7
            /\ g.end_grid % 7 = 6
            /\ body.to_date <= g.end_grid /\ g.end_grid - body.to_date < 7
            /\ n >= 1
            /\ \A w \in 1..n :
                  /\ Len(g.weeks[w]) = 7
                  /\ \A k \in 1..7 : g.weeks[w][k] = g.start_grid + 7 * (w - 1) + k - 1
            /\ g.weeks[n][7] = g.end_grid
            /\ \A day \in body.from_date..body.to_date :
                  \E w \in 1..n : \E k \in 1..7 : g.weeks[w][k] = day

\* a range from a Wednesday to the Tuesday after it lies in two weeks
C30_Witness ==
    /\ parsed # <<>> /\ body.fn = "chunk_weeks"
    /\ body.from_date = 2 /\ body.to_date = 8
    /\ parsed[1].start_grid = 0 /\ parsed[1].end_grid = 13
    /\ Len(parsed[1].weeks) = 2


(***************************************************************************)
(* C36: reference-like ingredient names.                                   *)
(***************************************************************************)
\* C36: for every name that begins with ./ or ../, with or without a file
\* component, resolve_recipe_reference returns a path or no reference and
\* raises no error
C36_ReferenceNeverRaises ==
    (parsed # <<>> /\ body.fn = "resolve_recipe_reference"
        /\ Len(body.name) >= 2 /\ body.name[1] \in {".", ".."}) =>
        parsed[1].kind \in {"path", "none"}


(***************************************************************************)
(* C34: when the recipes index is rebuilt.                                 *)
(***************************************************************************)
\* C34: recipes_index_needs_rebuild is true if and only if the index output
\* is missing, or the cached keys are not the current keys, or a current
\* recipe's metadata hash is not the cached one
C34_IndexRebuildIff ==
    (parsed # <<>> /\ body.fn = "recipes_index_needs_rebuild") =>
        (parsed[1] <=>
            \/ ~body.exists
            \/ DOMAIN body.cached # DOMAIN body.current
            \/ \E x \in DOMAIN body.current \cap DOMAIN body.cached :
                  body.cached[x] # body.current[x])

\* with the index there and the keys equal, one changed hash asks for the index
C34_Witness ==
    /\ parsed # <<>> /\ body.fn = "recipes_index_needs_rebuild"
    /\ body.exists
    /\ DOMAIN body.cached = {"r1", "r2"} /\ DOMAIN body.current = {"r1", "r2"}
    /\ body.cached["r1"] = body.current["r1"]
    /\ body.cached["r2"] = "h1" /\ body.current["r2"] = "h2"
    /\ parsed[1] = TRUE


(***************************************************************************)
(* C35: split_frontmatter.                                                 *)
(***************************************************************************)
\* the lines of a text: the characters between its newlines
RECURSIVE LinesOf(_, _)
LinesOf(s, cur) ==
    IF s = <<>> THEN <<cur>>
    ELSE IF Head(s) = Newline THEN <<cur>> \o LinesOf(Tail(s), <<>>)
    ELSE LinesOf(Tail(s), Append(cur, Head(s)))
RECURSIVE Unlines(_)
Unlines(ls) ==
    IF Len(ls) = 1 THEN ls[1] ELSE ls[1] \o <<Newline>> \o Unlines(Tail(ls))

\* C35: a text that does not begin with a line "---" gives the empty mapping
\* and itself as body; when a block is found it ends at a line that is
\* exactly "---", and the body is the text after that line without its
\* leading blank lines
C35_FrontmatterDelimiters ==
    (parsed # <<>> /\ body.fn = "split_frontmatter") =>
        LET s == Characters(body.text)
            ls == LinesOf(s, <<>>)
            r == parsed[1]
        IN  /\ RStrip(ls[1], {Blank}) # <<"-", "-", "-">> =>
                  ~r.matched /\ r.body = s
            /\ r.matched =>
                  \E k \in 2..Len(ls) :
                     /\ ls[k] = <<"-", "-", "-">>
                     /\ r.body = IF k = Len(ls) THEN <<>>
                                 ELSE LStrip(Unlines(SubSeq(ls, k + 1, Len(ls))), {Newline})


(***************************************************************************)
(* C33: the order in which the notes are traversed.                        *)
(***************************************************************************)
\* C33: the public notes taken in the other order give the same wikilink
\* map, the same wikilinks hash and the same navigation hash
C33_TraversalOrderIrrelevant ==
    LET pub == get_public_notes(notes)
        other == [k \in 1..Len(pub) |-> pub[Len(pub) + 1 - k]]
    IN  /\ build_wikilink_map(pub, notes) = build_wikilink_map(other, notes)
        /\ WikilinksHash(pub, notes) = WikilinksHash(other, notes)
        /\ build_nav(pub, notes) = build_nav(other, notes)


(***************************************************************************)
(* C38: what pruning may delete.                                           *)
(***************************************************************************)
\* C38: whatever the output field of the pruned cache entry (missing or
\* empty, or with parent-directory segments), pruning and the cleanup of
\* empty directories delete no file and no directory outside the output
\* root, and no directory that still holds something
C38_PruneStaysInside ==
    (parsed # <<>> /\ body.fn = "prune_private_notes") =>
        LET before == body.fs
            after == parsed[1].fs
            inside(p) == Len(p) > 1 /\ p[1] = "build"
        IN  /\ \A p \in (before.files \ after.files) \cup (before.dirs \ after.dirs) :
                  inside(p)
            /\ \A dir \in before.dirs \ after.dirs :
                  ~\E p \in after.files \cup after.dirs :
                      Len(p) > Len(dir) /\ SubSeq(p, 1, Len(dir)) = dir


(***************************************************************************)
(* C39: the assets of the notes.                                           *)
(***************************************************************************)
\* C39: after an invocation that syncs the note assets, the asset is in the
\* output tree only if a public note links to it, and the assets list of the
\* cache is the set of the assets that public notes link to
C39_AssetsFollowReferences ==
    [][(BuildStep /\ last'.exit = "ok"
          /\ last'.branch \in {"full", "note", "skip", "static", "incremental"}) =>
         LET referenced == \E n \in PublicSet : n \in links /\ assetSrc > 0
         IN  /\ assetDst' > 0 => referenced
             /\ last'.cache.assets = IF referenced THEN {AssetRel} ELSE {}]_vars


(***************************************************************************)
(* C31: the dev server runs its builds one after the other.                *)
(***************************************************************************)
\* C31: a build subprocess is started only after the one started before it
\* has exited, so at most one subprocess has not exited and no two of them
\* are between loading and persisting the cache file at the same time
C31_BuildsAreSerial ==
    /\ \A i \in 1..Len(dev.procs) : \A j \in 1..Len(dev.procs) :
          i < j => dev.procs[i].phase = "exited"
    /\ Cardinality({i \in 1..Len(dev.procs) :
                      dev.procs[i].phase \in {"started", "cache_loaded", "cache_saved"}}) <= 1

\* a static sync runs after the initial build has exited, while a change of
\* a note waits for its turn
C31_Witness ==
    /\ Len(dev.procs) = 2
    /\ dev.procs[1] = [args |-> "--all", phase |-> "exited"]
    /\ dev.procs[2] = [args |-> "--static", phase |-> "cache_loaded"]
    /\ "notes" \in dev.pending


\* the page of note n is there and is made from the note as it is now and
\* from the templates, navigation and wikilink map as they are now
Reflects(n) ==
    /\ n \in outNotes
    /\ written.pages[n] = PageOf(notes, tmpl, n, IncludesOf(notes, tmpl))

\* this step is a default-mode invocation that ran to its end, the first such
\* invocation since one was killed
Recovers ==
    /\ written.interrupted
    /\ last' # last
    /\ last'.mode = "default"
    /\ last'.exit = "ok"

\* C32: after an invocation was killed at any of its steps, the next
\* default-mode invocation that runs to its end rebuilds every public note
\* whose page does not reflect the note and the shared inputs as they are,
\* and leaves no page of a note that is not public
C32_CrashRecovery ==
    [][Recovers =>
         \A n \in Notes :
            /\ (notes[n].status = "public" /\ ~Reflects(n)) => n \in last'.built
            /\ notes[n].status # "public" => n \notin outNotes']_vars


=============================================================================
